---- MODULE Spec2Model ----
(***************************************************************************)
(* Model of the OAuth2 client-credentials server: Basic-Auth credential    *)
(* validation, RS256 token issuance, token introspection.                  *)
(*                                                                         *)
(* Conventions.                                                            *)
(*  - A header or credential string is a sequence of byte values (ASCII).  *)
(*  - A compact JWT is a sequence of units: a unit is either a plain       *)
(*    character [ch |-> c] or a base64url segment [seg |-> v] standing for *)
(*    the run of base64url characters that encodes the value v.            *)
(*  - RSA keys are named ("K1", "K2"); a signature is the record of the    *)
(*    key, the algorithm and the signing input it was computed over.       *)
(*  - The clock counts ticks; TicksPerSecond ticks make one second.        *)
(***************************************************************************)
EXTENDS Integers, Sequences, FiniteSets, TLC

VARIABLES keyPair, userPool, now, slots, last, held, memo, probe, call,
          dir, files, op

vars == <<keyPair, userPool, now, slots, last, held, memo, probe, call,
          dir, files, op>>

(***************************************************************************)
(* Bounds of the model.                                                    *)
(***************************************************************************)
MaxInFlight == 2
MaxEpoch == 2
MaxOffset == 1
TicksPerSecond == 2

(***************************************************************************)
(* Byte strings.                                                           *)
(***************************************************************************)
sBasic == <<66, 97, 115, 105, 99>>
sBearer == <<66, 101, 97, 114, 101, 114>>
sSpace == <<32>>
sColon == <<58>>
sSho == <<115, 104, 111>>
sTest123 == <<116, 101, 115, 116, 49, 50, 51>>
sTestuser == <<116, 101, 115, 116, 117, 115, 101, 114>>
sTestpass == <<116, 101, 115, 116, 112, 97, 115, 115>>
sAdmin == <<97, 100, 109, 105, 110>>
sAdminpass == <<97, 100, 109, 105, 110, 112, 97, 115, 115>>
sWrong == <<119, 114, 111, 110, 103>>
sBob == <<98, 111, 98>>
sInvalidBase64 == <<105, 110, 118, 97, 108, 105, 100, 45, 98, 97, 115, 101, 54, 52>>

\* strings.HasPrefix
HasPrefix(s, p) == Len(s) >= Len(p) /\ SubSeq(s, 1, Len(p)) = p

\* strings.TrimPrefix
TrimPrefix(s, p) == IF HasPrefix(s, p) THEN SubSeq(s, Len(p) + 1, Len(s)) ELSE s

\* index of the first occurrence of the one-element separator sep in s, 0 if none
IndexOf(s, sep) ==
  IF \E i \in 1..Len(s) : s[i] = sep[1]
    THEN CHOOSE i \in 1..Len(s) : s[i] = sep[1] /\ \A j \in 1..(i - 1) : s[j] # sep[1]
    ELSE 0

\* strings.Split(s, sep) for a one-character separator
RECURSIVE Split(_, _)
Split(s, sep) ==
  LET i == IndexOf(s, sep)
  IN IF i = 0 THEN <<s>>
     ELSE <<SubSeq(s, 1, i - 1)>> \o Split(SubSeq(s, i + 1, Len(s)), sep)

\* strings.SplitN(s, sep, 2)
SplitN2(s, sep) ==
  LET i == IndexOf(s, sep)
  IN IF i = 0 THEN <<s>>
     ELSE <<SubSeq(s, 1, i - 1), SubSeq(s, i + 1, Len(s))>>

(***************************************************************************)
(* encoding/base64, StdEncoding (RFC 4648 alphabet, '=' padding).          *)
(***************************************************************************)
sPad == <<61>>
sCRLF == <<13, 10>>

B64Char(i) ==
  IF i < 26 THEN 65 + i
  ELSE IF i < 52 THEN 97 + (i - 26)
  ELSE IF i < 62 THEN 48 + (i - 52)
  ELSE IF i = 62 THEN 43 ELSE 47

B64Index(c) ==
  IF c >= 65 /\ c <= 90 THEN c - 65
  ELSE IF c >= 97 /\ c <= 122 THEN c - 97 + 26
  ELSE IF c >= 48 /\ c <= 57 THEN c - 48 + 52
  ELSE IF c = 43 THEN 62
  ELSE IF c = 47 THEN 63
  ELSE -1

\* base64.StdEncoding.EncodeToString
RECURSIVE EncodeToString(_)
EncodeToString(b) ==
  IF Len(b) = 0 THEN <<>>
  ELSE IF Len(b) = 1 THEN
    <<B64Char(b[1] \div 4), B64Char((b[1] % 4) * 16), sPad[1], sPad[1]>>
  ELSE IF Len(b) = 2 THEN
    <<B64Char(b[1] \div 4),
      B64Char((b[1] % 4) * 16 + b[2] \div 16),
      B64Char((b[2] % 16) * 4), sPad[1]>>
  ELSE
    <<B64Char(b[1] \div 4),
      B64Char((b[1] % 4) * 16 + b[2] \div 16),
      B64Char((b[2] % 16) * 4 + b[3] \div 64),
      B64Char(b[3] % 64)>> \o EncodeToString(SubSeq(b, 4, Len(b)))

\* one quantum of four characters; only the last quantum may carry padding
DecodeQuantum(q, isLast) ==
  LET i1 == B64Index(q[1])
      i2 == B64Index(q[2])
      i3 == B64Index(q[3])
      i4 == B64Index(q[4])
  IN IF i1 < 0 \/ i2 < 0 THEN [ok |-> FALSE, bytes |-> <<>>]
     ELSE IF i3 >= 0 /\ i4 >= 0 THEN
       [ok |-> TRUE,
        bytes |-> <<i1 * 4 + i2 \div 16, (i2 % 16) * 16 + i3 \div 4, (i3 % 4) * 64 + i4>>]
     ELSE IF isLast /\ i3 >= 0 /\ q[4] = sPad[1] THEN
       [ok |-> TRUE, bytes |-> <<i1 * 4 + i2 \div 16, (i2 % 16) * 16 + i3 \div 4>>]
     ELSE IF isLast /\ q[3] = sPad[1] /\ q[4] = sPad[1] THEN
       [ok |-> TRUE, bytes |-> <<i1 * 4 + i2 \div 16>>]
     ELSE [ok |-> FALSE, bytes |-> <<>>]

RECURSIVE DecodeQuanta(_)
DecodeQuanta(s) ==
  IF Len(s) = 0 THEN [ok |-> TRUE, bytes |-> <<>>]
  ELSE IF Len(s) < 4 THEN [ok |-> FALSE, bytes |-> <<>>]
  ELSE
    LET q == DecodeQuantum(SubSeq(s, 1, 4), Len(s) = 4)
        r == DecodeQuanta(SubSeq(s, 5, Len(s)))
    IN IF q.ok /\ r.ok THEN [ok |-> TRUE, bytes |-> q.bytes \o r.bytes]
       ELSE [ok |-> FALSE, bytes |-> <<>>]

\* base64.StdEncoding.DecodeString: CR and LF are skipped, then quanta decoded
DecodeString(s) ==
  DecodeQuanta(SelectSeq(s, LAMBDA c : c # sCRLF[1] /\ c # sCRLF[2]))

(***************************************************************************)
(* Credential validation (package auth).                                   *)
(***************************************************************************)
NoAuth == [err |-> "nil", Username |-> <<>>, Password |-> <<>>]

AuthFail(e) == [err |-> e, Username |-> <<>>, Password |-> <<>>]

\* ParseBasicAuth storing the two credential parts in the wrong fields
ParseBasicAuth_SwapFields(pool, authHeader) ==
  IF authHeader = <<>> THEN AuthFail("ErrMissingHeader")
  ELSE
    LET parts == Split(authHeader, sSpace)
    IN IF Len(parts) # 2 \/ parts[1] # sBasic THEN AuthFail("ErrInvalidFormat")
       ELSE
         LET decoded == DecodeString(parts[2])
         IN IF ~decoded.ok THEN AuthFail("ErrInvalidBase64")
            ELSE
              LET credentials == SplitN2(decoded.bytes, sColon)
              IN IF Len(credentials) # 2 THEN AuthFail("ErrInvalidFormat")
                 ELSE IF credentials[1] \notin DOMAIN pool
                         \/ pool[credentials[1]] # credentials[2]
                   THEN AuthFail("ErrInvalidCredentials")
                 ELSE [err |-> "nil", Username |-> credentials[2],
                       Password |-> credentials[1]]

\* ParseBasicAuth splitting the credentials at every colon (Split for SplitN)
ParseBasicAuth_SplitAll(pool, authHeader) ==
  IF authHeader = <<>> THEN AuthFail("ErrMissingHeader")
  ELSE
    LET parts == Split(authHeader, sSpace)
    IN IF Len(parts) # 2 \/ parts[1] # sBasic THEN AuthFail("ErrInvalidFormat")
       ELSE
         LET decoded == DecodeString(parts[2])
         IN IF ~decoded.ok THEN AuthFail("ErrInvalidBase64")
            ELSE
              LET credentials == Split(decoded.bytes, sColon)
              IN IF Len(credentials) # 2 THEN AuthFail("ErrInvalidFormat")
                 ELSE IF credentials[1] \notin DOMAIN pool
                         \/ pool[credentials[1]] # credentials[2]
                   THEN AuthFail("ErrInvalidCredentials")
                 ELSE [err |-> "nil", Username |-> credentials[1],
                       Password |-> credentials[2]]

\* ParseBasicAuth telling an unknown client apart from a wrong secret
ParseBasicAuth_UnknownClient(pool, authHeader) ==
  IF authHeader = <<>> THEN AuthFail("ErrMissingHeader")
  ELSE
    LET parts == Split(authHeader, sSpace)
    IN IF Len(parts) # 2 \/ parts[1] # sBasic THEN AuthFail("ErrInvalidFormat")
       ELSE
         LET decoded == DecodeString(parts[2])
         IN IF ~decoded.ok THEN AuthFail("ErrInvalidBase64")
            ELSE
              LET credentials == SplitN2(decoded.bytes, sColon)
              IN IF Len(credentials) # 2 THEN AuthFail("ErrInvalidFormat")
                 ELSE IF credentials[1] \notin DOMAIN pool
                   THEN AuthFail("ErrUnknownClient")
                 ELSE IF pool[credentials[1]] # credentials[2]
                   THEN AuthFail("ErrInvalidCredentials")
                 ELSE [err |-> "nil", Username |-> credentials[1],
                       Password |-> credentials[2]]

\* The BasicAuth value after ParseBasicAuth on a fresh NewBasicAuth(pool),
\* together with the returned error.
ParseBasicAuth(pool, authHeader) ==
  IF authHeader = <<>> THEN AuthFail("ErrMissingHeader")
  ELSE
    LET parts == Split(authHeader, sSpace)
    IN IF Len(parts) # 2 \/ parts[1] # sBasic THEN AuthFail("ErrInvalidFormat")
       ELSE
         LET decoded == DecodeString(parts[2])
         IN IF ~decoded.ok THEN AuthFail("ErrInvalidBase64")
            ELSE
              LET credentials == SplitN2(decoded.bytes, sColon)
              IN IF Len(credentials) # 2 THEN AuthFail("ErrInvalidFormat")
                 ELSE IF credentials[1] \notin DOMAIN pool
                         \/ pool[credentials[1]] # credentials[2]
                   THEN AuthFail("ErrInvalidCredentials")
                 ELSE [err |-> "nil", Username |-> credentials[1],
                       Password |-> credentials[2]]

GetErrorResponse(err) ==
  IF err = "ErrMissingHeader" THEN
    [error |-> "invalid_client", error_description |-> "Authorization header required"]
  ELSE IF err = "ErrInvalidFormat" THEN
    [error |-> "invalid_client", error_description |-> "Invalid authorization header format"]
  ELSE IF err = "ErrInvalidBase64" THEN
    [error |-> "invalid_client", error_description |-> "Invalid credentials"]
  ELSE IF err = "ErrInvalidCredentials" THEN
    [error |-> "invalid_client", error_description |-> "Invalid username or password"]
  ELSE
    [error |-> "invalid_client", error_description |-> "Authentication failed"]

(***************************************************************************)
(* HTTP responses.                                                         *)
(***************************************************************************)
\* http.Error: plain-text body with the given status
HttpError(msg, arg, code) ==
  [status |-> code, ctype |-> "text/plain", body |-> [text |-> msg, arg |-> arg]]

\* a JSON body written with the given status
JsonResponse(code, body) ==
  [status |-> code, ctype |-> "application/json", body |-> body]

NoResponse == [status |-> 0, ctype |-> "", body |-> [text |-> "", arg |-> <<>>]]

\* ValidateMethod letting every method through
ValidateMethod_AcceptsAll(method, expectedMethod) == TRUE

\* request.ValidateMethod: whether the handler goes on; the caller writes
\* the 405 response otherwise
ValidateMethod(method, expectedMethod) == method = expectedMethod

\* request.ValidateAuthorization
ValidateAuthorization(auth, expectedScheme) ==
  IF auth = <<>> THEN
    [ok |-> FALSE, resp |-> HttpError("Authorization header required", <<>>, 401)]
  ELSE IF ~HasPrefix(auth, expectedScheme \o sSpace) THEN
    [ok |-> FALSE, resp |-> HttpError("Invalid authorization scheme", auth, 401)]
  ELSE [ok |-> TRUE, resp |-> NoResponse]

(***************************************************************************)
(* Keys (package token, keyloader.go).                                     *)
(***************************************************************************)
Keys == {"K1", "K2"}

\* modulus bytes of the named key (leading byte non-zero, as big.Int.Bytes gives)
ModulusOf(id) ==
  IF id = "K1" THEN <<251, 255, 190, 4>> ELSE <<201, 255, 62, 17, 5>>

\* token.ParsePrivateKey on the DER bytes of the named key
ParsePrivateKey(id) ==
  [privateKey |-> [nil |-> FALSE, id |-> id, valid |-> TRUE],
   publicKey |-> [type |-> "rsa-public", id |-> id, N |-> ModulusOf(id), E |-> 65537]]

(***************************************************************************)
(* Compact JWT strings.                                                    *)
(***************************************************************************)
Ch(c) == [ch |-> c]

Seg(v) == [seg |-> v]

\* a byte string as a unit string
Chars(s) == [i \in 1..Len(s) |-> Ch(s[i])]

sDot == <<46>>

Dot == Chars(sDot)

IsSeg(u) == "seg" \in DOMAIN u

\* jwt.NumericDate pointers: <<>> is nil, <<t>> a date of t whole seconds
NilDate == <<>>

\* jwt.NewNumericDate: truncation of the clock reading to whole seconds
NewNumericDate(ticks) == <<ticks \div TicksPerSecond>>

\* (*NumericDate).Unix() of a non-nil date
Unix(d) == d[1]

issuerName == "oauth2-server"

\* token lifetime in seconds: now.Add(1 * time.Hour), expires_in
TokenLifetime == 3600

JoseHeader(alg) == [t |-> "header", alg |-> alg, typ |-> "JWT"]

RegisteredClaims(iss, sub, iat, nbf, exp) ==
  [t |-> "claims", iss |-> iss, sub |-> sub, iat |-> iat, nbf |-> nbf, exp |-> exp]

EmptyClaims == RegisteredClaims("", <<>>, NilDate, NilDate, NilDate)

\* the signing input: the first two segments as they appear in the string
SigningString(headerPart, claimsPart) == <<headerPart, claimsPart>>

\* signature bytes made by the named private key with the given method
Signature(alg, keyId, signingString) ==
  [t |-> "sig", alg |-> alg, key |-> keyId, msg |-> signingString]

\* jwt.NewWithClaims(method, claims).SignedString(key)
SignedString(alg, keyId, claims) ==
  LET h == <<Seg(JoseHeader(alg))>>
      c == <<Seg(claims)>>
  IN h \o Dot \o c \o Dot \o <<Seg(Signature(alg, keyId, SigningString(h, c)))>>

\* GenerateToken with a lifetime of one minute (time.Minute for time.Hour)
GenerateToken_OneMinute(privateKey, username, ticks) ==
  IF privateKey.nil
    THEN [token |-> <<>>, err |-> "ErrNilPrivateKey", signed |-> FALSE]
  ELSE IF ~privateKey.valid
    THEN [token |-> <<>>, err |-> "ErrInvalidKey", signed |-> FALSE]
  ELSE IF username = <<>>
    THEN [token |-> <<>>, err |-> "ErrEmptyUsername", signed |-> FALSE]
  ELSE
    [token |-> SignedString("RS256", privateKey.id,
                 RegisteredClaims(issuerName, username,
                   NewNumericDate(ticks), NewNumericDate(ticks),
                   NewNumericDate(ticks + 60 * TicksPerSecond))),
     err |-> "nil", signed |-> TRUE]

\* GenerateToken checking the username before the key
GenerateToken_UsernameFirst(privateKey, username, ticks) ==
  IF username = <<>>
    THEN [token |-> <<>>, err |-> "ErrEmptyUsername", signed |-> FALSE]
  ELSE IF privateKey.nil
    THEN [token |-> <<>>, err |-> "ErrNilPrivateKey", signed |-> FALSE]
  ELSE IF ~privateKey.valid
    THEN [token |-> <<>>, err |-> "ErrInvalidKey", signed |-> FALSE]
  ELSE
    [token |-> SignedString("RS256", privateKey.id,
                 RegisteredClaims(issuerName, username,
                   NewNumericDate(ticks), NewNumericDate(ticks),
                   NewNumericDate(ticks + TokenLifetime * TicksPerSecond))),
     err |-> "nil", signed |-> TRUE]

\* Generator.GenerateToken(username) with the clock reading ticks;
\* signed records whether SignedString was called
GenerateToken(privateKey, username, ticks) ==
  IF privateKey.nil
    THEN [token |-> <<>>, err |-> "ErrNilPrivateKey", signed |-> FALSE]
  ELSE IF ~privateKey.valid
    THEN [token |-> <<>>, err |-> "ErrInvalidKey", signed |-> FALSE]
  ELSE IF username = <<>>
    THEN [token |-> <<>>, err |-> "ErrEmptyUsername", signed |-> FALSE]
  ELSE
    [token |-> SignedString("RS256", privateKey.id,
                 RegisteredClaims(issuerName, username,
                   NewNumericDate(ticks), NewNumericDate(ticks),
                   NewNumericDate(ticks + TokenLifetime * TicksPerSecond))),
     err |-> "nil", signed |-> TRUE]

(***************************************************************************)
(* jwt.ParseWithClaims (golang-jwt v5) as validateToken calls it.          *)
(***************************************************************************)
RSAFamily == {"RS256", "RS384", "RS512"}

PSSFamily == {"PS256", "PS384", "PS512"}

\* algorithms for which jwt.GetSigningMethod returns a method
RegisteredAlgs ==
  RSAFamily \cup PSSFamily
    \cup {"HS256", "HS384", "HS512", "ES256", "ES384", "ES512", "EdDSA", "none"}

\* the key function with the type assertion inverted (ok for !ok)
KeyFunc_Inverted(alg, kp) ==
  IF alg \in RSAFamily
    THEN [key |-> [type |-> "nil", id |-> "", N |-> <<>>, E |-> 0],
          err |-> "ErrSignatureInvalid"]
    ELSE [key |-> kp.publicKey, err |-> "nil"]

\* the key function without the signing-method check
KeyFunc_NoCheck(alg, kp) == [key |-> kp.publicKey, err |-> "nil"]

\* the key function validateToken passes to the parser
KeyFunc(alg, kp) ==
  IF alg \notin RSAFamily
    THEN [key |-> [type |-> "nil", id |-> "", N |-> <<>>, E |-> 0],
          err |-> "ErrSignatureInvalid"]
    ELSE [key |-> kp.publicKey, err |-> "nil"]

\* signature verification that does not bind the signature to the key
MethodVerify_AnyKey(alg, signingString, sig, key) ==
  /\ alg \in RSAFamily \cup PSSFamily
  /\ key.type = "rsa-public"
  /\ Len(sig) = 1
  /\ IsSeg(sig[1])
  /\ sig[1].seg.t = "sig"
  /\ sig[1].seg.alg = alg
  /\ sig[1].seg.msg = signingString

\* SigningMethod.Verify: RSA and RSA-PSS take an *rsa.PublicKey; the other
\* methods reject that key type
MethodVerify(alg, signingString, sig, key) ==
  /\ alg \in RSAFamily \cup PSSFamily
  /\ key.type = "rsa-public"
  /\ Len(sig) = 1
  /\ IsSeg(sig[1])
  /\ sig[1].seg.t = "sig"
  /\ sig[1].seg.alg = alg
  /\ sig[1].seg.key = key.id
  /\ sig[1].seg.msg = signingString

\* a part decodes as base64url when it is empty or one segment
DecodesSegment(part) == Len(part) = 0 \/ (Len(part) = 1 /\ IsSeg(part[1]))

\* a part decodes to a JSON object
DecodesObject(part) ==
  Len(part) = 1 /\ IsSeg(part[1]) /\ part[1].seg.t \in {"header", "claims"}

\* json.Unmarshal of an object into jwt.RegisteredClaims
ClaimsOf(part) ==
  IF part[1].seg.t = "claims" THEN part[1].seg ELSE EmptyClaims

\* the "alg" member of a decoded header object, "" when absent
AlgOf(part) == IF part[1].seg.t = "header" THEN part[1].seg.alg ELSE ""

\* a validator that still accepts a token at the instant it expires
ClaimsValid_AtExpiry(claims, ticks) ==
  /\ claims.exp = NilDate \/ ticks <= Unix(claims.exp) * TicksPerSecond
  /\ claims.nbf = NilDate \/ ticks >= Unix(claims.nbf) * TicksPerSecond

\* Validator.Validate on registered claims with the clock reading ticks
ClaimsValid(claims, ticks) ==
  /\ claims.exp = NilDate \/ ticks < Unix(claims.exp) * TicksPerSecond
  /\ claims.nbf = NilDate \/ ticks >= Unix(claims.nbf) * TicksPerSecond

ParseFail(e, claims, kf) ==
  [Valid |-> FALSE, claims |-> claims, err |-> e, keyfunc |-> kf]

\* validateToken(tokenString, keyPair) at clock reading ticks; keyfunc
\* records what the key function returned ("notcalled" when it did not run)
validateToken(tokenString, kp, ticks) ==
  LET parts == Split(tokenString, Dot)
  IN IF Len(parts) # 3 THEN ParseFail("ErrTokenMalformed", EmptyClaims, "notcalled")
     ELSE IF ~DecodesObject(parts[1]) \/ ~DecodesObject(parts[2])
       THEN ParseFail("ErrTokenMalformed", EmptyClaims, "notcalled")
     ELSE
       LET claims == ClaimsOf(parts[2])
           alg == AlgOf(parts[1])
       IN IF alg \notin RegisteredAlgs
            THEN ParseFail("ErrTokenUnverifiable", claims, "notcalled")
          ELSE IF ~DecodesSegment(parts[3])
            THEN ParseFail("ErrTokenMalformed", claims, "notcalled")
          ELSE
            LET got == KeyFunc(alg, kp)
            IN IF got.err # "nil"
                 THEN ParseFail("ErrTokenUnverifiable", claims, got.err)
               ELSE IF ~MethodVerify(alg, SigningString(parts[1], parts[2]),
                                     parts[3], got.key)
                 THEN ParseFail("ErrTokenSignatureInvalid", claims, "key")
               ELSE IF ~ClaimsValid(claims, ticks)
                 THEN ParseFail("ErrTokenInvalidClaims", claims, "key")
               ELSE [Valid |-> TRUE, claims |-> claims, err |-> "nil",
                     keyfunc |-> "key"]

(***************************************************************************)
(* Introspection (package token, introspection.go).                        *)
(***************************************************************************)
BearerPrefix == Chars(sBearer \o sSpace)

\* extractTokenFromRequest trying the Authorization header first
extractTokenFromRequest_HeaderFirst(req) ==
  IF req.auth # <<>> /\ HasPrefix(req.auth, BearerPrefix)
    THEN TrimPrefix(req.auth, BearerPrefix)
  ELSE req.form

\* extractTokenFromRequest: the form field wins over the Authorization header
extractTokenFromRequest(req) ==
  IF req.form # <<>> THEN req.form
  ELSE IF req.auth # <<>> /\ HasPrefix(req.auth, BearerPrefix)
    THEN TrimPrefix(req.auth, BearerPrefix)
  ELSE <<>>

\* the zero IntrospectionResponse, fields named by their JSON tags
ZeroIntrospection ==
  [active |-> FALSE, scope |-> "", client_id |-> "", username |-> "",
   token_type |-> "", exp |-> 0, iat |-> 0, nbf |-> 0, sub |-> <<>>,
   aud |-> "", iss |-> "", jti |-> ""]

\* introspectToken copying issued-at into exp and expires-at into iat
introspectToken_SwapDates(parsedToken) ==
  IF ~parsedToken.Valid THEN [panic |-> FALSE, resp |-> ZeroIntrospection]
  ELSE IF parsedToken.claims.t # "claims"
    THEN [panic |-> FALSE, resp |-> ZeroIntrospection]
  ELSE IF parsedToken.claims.exp = NilDate
          \/ parsedToken.claims.iat = NilDate
          \/ parsedToken.claims.nbf = NilDate
    THEN [panic |-> TRUE, resp |-> ZeroIntrospection]
  ELSE
    [panic |-> FALSE,
     resp |-> [ZeroIntrospection EXCEPT
                 !.active = TRUE,
                 !.token_type = "Bearer",
                 !.sub = parsedToken.claims.sub,
                 !.iss = parsedToken.claims.iss,
                 !.exp = Unix(parsedToken.claims.iat),
                 !.iat = Unix(parsedToken.claims.exp),
                 !.nbf = Unix(parsedToken.claims.nbf)]]

\* introspectToken; claims of another type than *jwt.RegisteredClaims carry
\* a tag other than "claims"; panic is the nil dereference of an absent
\* NumericDate
introspectToken(parsedToken) ==
  IF ~parsedToken.Valid THEN [panic |-> FALSE, resp |-> ZeroIntrospection]
  ELSE IF parsedToken.claims.t # "claims"
    THEN [panic |-> FALSE, resp |-> ZeroIntrospection]
  ELSE IF parsedToken.claims.exp = NilDate
          \/ parsedToken.claims.iat = NilDate
          \/ parsedToken.claims.nbf = NilDate
    THEN [panic |-> TRUE, resp |-> ZeroIntrospection]
  ELSE
    [panic |-> FALSE,
     resp |-> [ZeroIntrospection EXCEPT
                 !.active = TRUE,
                 !.token_type = "Bearer",
                 !.sub = parsedToken.claims.sub,
                 !.iss = parsedToken.claims.iss,
                 !.exp = Unix(parsedToken.claims.exp),
                 !.iat = Unix(parsedToken.claims.iat),
                 !.nbf = Unix(parsedToken.claims.nbf)]]

\* the zero value test json applies to an omitempty field
IsZeroField(f, v) ==
  IF f \in {"exp", "iat", "nbf"} THEN v = 0
  ELSE IF f = "sub" THEN v = <<>>
  ELSE v = ""

\* json encoding of an IntrospectionResponse: all fields but active are omitempty
EncodeIntrospection(r) ==
  [f \in {g \in DOMAIN r : g = "active" \/ ~IsZeroField(g, r[g])} |-> r[f]]

\* writeIntrospectionError without the active=false special case
writeIntrospectionError_AlwaysError(status, message) ==
  JsonResponse(status, [error |-> message])

writeIntrospectionError(status, message) ==
  IF message = "Token validation failed"
    THEN JsonResponse(status, EncodeIntrospection(ZeroIntrospection))
    ELSE JsonResponse(status, [error |-> message])

\* the connection is dropped without a response when the handler panics
PanicResponse == [status |-> 0, ctype |-> "panic", body |-> [text |-> "", arg |-> <<>>]]

(***************************************************************************)
(* Key-set publication (package auth, jwk.go).                             *)
(***************************************************************************)
\* big.Int.Bytes: big-endian bytes without leading zeros
RECURSIVE BigBytes(_)
BigBytes(n) == IF n = 0 THEN <<>> ELSE BigBytes(n \div 256) \o <<n % 256>>

\* base64.RawURLEncoding.EncodeToString: URL alphabet, no padding
RawURLEncodeToString(b) ==
  LET std == SelectSeq(EncodeToString(b), LAMBDA c : c # sPad[1])
  IN [i \in 1..Len(std) |->
        IF std[i] = 43 THEN 45 ELSE IF std[i] = 47 THEN 95 ELSE std[i]]

\* convertToJWK with base64.StdEncoding for base64.RawURLEncoding
convertToJWK_StdEncoding(kp) ==
  [kty |-> "RSA", use |-> "sig", kid |-> "1", alg |-> "RS256",
   n |-> EncodeToString(kp.publicKey.N),
   e |-> EncodeToString(BigBytes(kp.publicKey.E))]

convertToJWK(kp) ==
  [kty |-> "RSA", use |-> "sig", kid |-> "1", alg |-> "RS256",
   n |-> RawURLEncodeToString(kp.publicKey.N),
   e |-> RawURLEncodeToString(BigBytes(kp.publicKey.E))]

\* kp = [nil |-> TRUE] is a nil token.KeyPair
writeJWKSResponse(kp) ==
  IF kp = [nil |-> TRUE] THEN JsonResponse(400, [error |-> "invalid_key_pair"])
  ELSE JsonResponse(200, [keys |-> <<convertToJWK(kp)>>])

(***************************************************************************)
(* Inputs.                                                                 *)
(***************************************************************************)
Methods == {"POST", "GET", "PUT"}

\* userpool.Default() and the pool of TestParseBasicAuth
Default == (sSho :> sTest123)

TestPool == (sTestuser :> sTestpass) @@ (sAdmin :> sAdminpass)

Pools == {Default, TestPool}

\* "Basic " followed by the base64 of id:secret
BasicHeader(id, secret) ==
  sBasic \o sSpace \o EncodeToString(id \o sColon \o secret)

\* the Authorization headers a token request may carry, given the pool
AuthHeaders(pool) ==
  {BasicHeader(id, pool[id]) : id \in DOMAIN pool}
    \cup {BasicHeader(id, sWrong) : id \in DOMAIN pool}
    \cup {<<>>,
          BasicHeader(sBob, sTest123),
          sBearer \o sSpace \o EncodeToString(sSho \o sColon \o sTest123),
          sBasic \o EncodeToString(sSho \o sColon \o sTest123),
          sBasic \o sSpace \o sSpace \o EncodeToString(sSho \o sColon \o sTest123),
          sBasic \o sSpace \o sInvalidBase64,
          sBasic \o sSpace \o EncodeToString(sSho)}

\* the instants at which the clock is read
Instants ==
  {k * TokenLifetime * TicksPerSecond + o : k \in 1..MaxEpoch, o \in 0..MaxOffset}

\* token requests: a POST with any of the headers, or another method
TokenRequests(pool) ==
  {[method |-> "POST", form |-> <<>>, auth |-> h] : h \in AuthHeaders(pool)}
    \cup {[method |-> m, form |-> <<>>, auth |-> h] :
            m \in Methods \ {"POST"},
            h \in {<<>>} \cup {BasicHeader(id, pool[id]) : id \in DOMAIN pool}}

FirstInstant == TokenLifetime * TicksPerSecond

\* a date after every instant, and one not after any instant
FarFuture == <<(MaxEpoch + 2) * TokenLifetime>>

LongAgo == <<TokenLifetime>>

Junk == <<Seg([t |-> "junk"])>>

\* the signature segment replaced by bytes no key produced
Tamper(tok) ==
  IF Len(tok) = 0 THEN tok
  ELSE [tok EXCEPT ![Len(tok)] =
          Seg(Signature("RS256", "nobody", SigningString(<<>>, <<>>)))]

\* the header re-encoded to declare another algorithm, the rest kept
ReHeader(tok, alg) ==
  IF Len(tok) = 0 THEN tok ELSE [tok EXCEPT ![1] = Seg(JoseHeader(alg))]

GoodClaims == RegisteredClaims(issuerName, sSho, LongAgo, LongAgo, FarFuture)

\* token strings not obtained from the token endpoint
ForgedTokens ==
  {Junk,
   Junk \o Dot \o Junk \o Dot \o Junk,
   <<Seg(JoseHeader("RS256"))>> \o Dot \o <<Seg(GoodClaims)>>,
   SignedString("RS256", "K1", GoodClaims),
   SignedString("RS256", "K2", GoodClaims),
   SignedString("RS384", "K1", GoodClaims),
   SignedString("PS256", "K1", GoodClaims),
   SignedString("HS256", "K1", GoodClaims),
   SignedString("ES256", "K1", GoodClaims),
   SignedString("none", "K1", GoodClaims),
   SignedString("XX", "K1", GoodClaims),
   ReHeader(SignedString("RS256", "K1", GoodClaims), "HS256"),
   Tamper(SignedString("RS256", "K1", GoodClaims)),
   SignedString("RS256", "K1",
     RegisteredClaims(issuerName, sSho, LongAgo, LongAgo, LongAgo)),
   SignedString("RS256", "K1",
     RegisteredClaims(issuerName, sSho, LongAgo, FarFuture, FarFuture)),
   SignedString("RS256", "K1",
     RegisteredClaims(issuerName, sSho, LongAgo, LongAgo, NilDate))}

\* the token strings a client may present, holding the token h
Presented(h) ==
  ForgedTokens \cup (IF h = <<>> THEN {} ELSE {h, Tamper(h), ReHeader(h, "HS256")})

\* introspection requests: the token in the form field, in a Bearer header,
\* in both places, or nowhere
IntrospectRequests(h) ==
  {[method |-> "POST", form |-> t, auth |-> <<>>] : t \in Presented(h)}
    \cup {[method |-> m, form |-> t, auth |-> <<>>] :
            m \in Methods \ {"POST"}, t \in {h, SignedString("RS256", "K1", GoodClaims)}}
    \cup {[method |-> "POST", form |-> <<>>, auth |-> BearerPrefix \o t] :
            t \in {h, Junk}}
    \cup {[method |-> "POST", form |-> h, auth |-> BearerPrefix \o Junk],
          [method |-> "POST", form |-> <<>>, auth |-> <<>>],
          [method |-> "POST", form |-> <<>>, auth |-> BearerPrefix],
          [method |-> "POST", form |-> <<>>, auth |-> Chars(sBasic \o sSpace) \o Junk]}

(***************************************************************************)
(* State: the configuration handed to the handlers at startup, the clock,  *)
(* the token requests that are between credential validation and token     *)
(* generation (one slot per concurrent request), the last completed        *)
(* exchange, and the token a client holds.                                 *)
(*                                                                         *)
(* HandleToken reads shared state twice (the pool in ParseBasicAuth, the   *)
(* key and the clock in GenerateToken) and is modelled in two steps that   *)
(* other requests interleave with.  HandleJWKS and HandleIntrospection     *)
(* read shared state once and are one step each.  memo and probe are       *)
(* observation variables of the auxiliary specifications below.            *)
(***************************************************************************)
NoRequest == [method |-> "", form |-> <<>>, auth |-> <<>>]

NoValidation == ParseFail("nil", EmptyClaims, "notcalled")

Exchange(kind, req, resp, at, token, val) ==
  [kind |-> kind, req |-> req, resp |-> resp, at |-> at, token |-> token, val |-> val]

SlotIds == 1..MaxInFlight

\* memo: an earlier introspection exchange an observer remembered, and
\* whether a token has been issued since;
\* probe: one application of ParseBasicAuth to a constructed header
NoMemo ==
  [set |-> FALSE, later |-> FALSE, token |-> <<>>, at |-> 0, resp |-> NoResponse]

NoProbe ==
  [set |-> FALSE, scheme |-> <<>>, sep |-> <<>>, kind |-> "", id |-> <<>>,
   secret |-> <<>>, header |-> <<>>, out |-> NoAuth]

\* call: one application of a function of the server to drawn arguments
\* the key store: dir tells whether the keys directory exists, files maps
\* the name of each file in it to its content (<<>>: no file), op is the
\* last operation of the key manager that returned
IdleSlot == [pc |-> "idle", req |-> NoRequest, basicAuth |-> NoAuth]

\* setup: the key pair parsed from the configured key (K1), the default pool
\* (the handlers take any pool: the test pool is drawn as well)
Init ==
  /\ keyPair = ParsePrivateKey("K1")
  /\ userPool \in Pools
  /\ now = FirstInstant
  /\ slots = [i \in SlotIds |-> IdleSlot]
  /\ last = Exchange("none", NoRequest, NoResponse, 0, <<>>, NoValidation)
  /\ held = <<>>
  /\ memo = NoMemo
  /\ probe = NoProbe
  /\ call = [fn |-> "none"]
  /\ dir = TRUE
  /\ files = <<>>
  /\ op = [name |-> "none"]

\* the clock advances
Tick ==
  /\ \E t \in Instants : t > now /\ now' = t
  /\ UNCHANGED <<keyPair, userPool, slots, last, held, memo, probe, call, dir, files, op>>

\* the outcome of the first part of HandleToken: a response, or the
\* BasicAuth value the request goes on with
TokenAuthOutcome(pool, req) ==
  IF ~ValidateMethod(req.method, "POST")
    THEN [done |-> TRUE, resp |-> HttpError("Method not allowed", <<>>, 405),
          basicAuth |-> NoAuth]
  ELSE
    LET va == ValidateAuthorization(req.auth, sBasic)
        ba == ParseBasicAuth(pool, req.auth)
    IN IF ~va.ok THEN [done |-> TRUE, resp |-> va.resp, basicAuth |-> NoAuth]
       ELSE IF ba.err # "nil"
         THEN [done |-> TRUE, resp |-> JsonResponse(401, GetErrorResponse(ba.err)),
               basicAuth |-> ba]
       ELSE [done |-> FALSE, resp |-> NoResponse, basicAuth |-> ba]

\* HandleToken up to credential validation, for the request in slot i
TokenAuth(i) ==
  /\ slots[i].pc = "idle"
  /\ \E req \in TokenRequests(userPool) :
       LET out == TokenAuthOutcome(userPool, req)
       IN IF out.done
            THEN /\ last' = Exchange("token", req, out.resp, now, <<>>, NoValidation)
                 /\ UNCHANGED slots
            ELSE /\ slots' = [slots EXCEPT ![i] =
                      [pc |-> "generate", req |-> req, basicAuth |-> out.basicAuth]]
                 /\ UNCHANGED last
  /\ UNCHANGED <<keyPair, userPool, now, held, memo, probe, call, dir, files, op>>

\* expires_in of the token response
ExpiresIn == 3600

\* the response HandleToken writes after GenerateToken
TokenResponse(g) ==
  IF g.err # "nil"
    THEN JsonResponse(500, [error |-> "server_error",
                            error_description |-> "Failed to generate token"])
    ELSE JsonResponse(200, [access_token |-> g.token, token_type |-> "Bearer",
                            expires_in |-> ExpiresIn])

\* HandleToken deleting the authenticated client from the shared pool
TokenGenerate_Consume(i) ==
  /\ slots[i].pc = "generate"
  /\ LET g == GenerateToken(keyPair.privateKey, slots[i].basicAuth.Username, now)
     IN /\ last' = Exchange("token", slots[i].req, TokenResponse(g), now, <<>>,
                     NoValidation)
        /\ held' \in {held} \cup (IF g.err = "nil" THEN {g.token} ELSE {})
  /\ slots' = [slots EXCEPT ![i] = IdleSlot]
  /\ userPool' = [id \in DOMAIN userPool \ {slots[i].basicAuth.Username} |->
                    userPool[id]]
  /\ memo' = [memo EXCEPT !.later = memo.set]
  /\ UNCHANGED <<keyPair, now, probe, call, dir, files, op>>

\* HandleToken with one BasicAuth value shared by all requests: the token
\* is generated for the client validated last
TokenGenerate_SharedAuth(i) ==
  /\ slots[i].pc = "generate"
  /\ LET j == CHOOSE j \in SlotIds :
                /\ slots[j].pc = "generate"
                /\ \A k \in SlotIds : slots[k].pc = "generate" => k <= j
         g == GenerateToken(keyPair.privateKey, slots[j].basicAuth.Username, now)
     IN /\ last' = Exchange("token", slots[i].req, TokenResponse(g), now, <<>>,
                     NoValidation)
        /\ held' \in {held} \cup (IF g.err = "nil" THEN {g.token} ELSE {})
  /\ slots' = [slots EXCEPT ![i] = IdleSlot]
  /\ memo' = [memo EXCEPT !.later = memo.set]
  /\ UNCHANGED <<keyPair, userPool, now, probe, call, dir, files, op>>

\* HandleToken from token generation to the response, for the request in
\* slot i; the client keeps the token it held or the new one
TokenGenerate(i) ==
  /\ slots[i].pc = "generate"
  /\ LET g == GenerateToken(keyPair.privateKey, slots[i].basicAuth.Username, now)
     IN /\ last' = Exchange("token", slots[i].req, TokenResponse(g), now, <<>>,
                     NoValidation)
        /\ held' \in {held} \cup (IF g.err = "nil" THEN {g.token} ELSE {})
  /\ slots' = [slots EXCEPT ![i] = IdleSlot]
  /\ memo' = [memo EXCEPT !.later = memo.set]
  /\ UNCHANGED <<keyPair, userPool, now, probe, call, dir, files, op>>

\* HandleJWKS
HandleJWKS ==
  \E m \in Methods :
    LET req == [method |-> m, form |-> <<>>, auth |-> <<>>]
    IN /\ last' = Exchange("jwks", req,
                    IF ~ValidateMethod(m, "GET")
                      THEN HttpError("Method not allowed", <<>>, 405)
                      ELSE writeJWKSResponse(keyPair),
                    now, <<>>, NoValidation)
       /\ UNCHANGED <<keyPair, userPool, now, slots, held, memo, probe, call, dir, files, op>>

\* the response HandleIntrospection writes for a token that validateToken
\* returned without error
IntrospectionResult(parsed) ==
  LET r == introspectToken(parsed)
  IN IF r.panic THEN PanicResponse
     ELSE JsonResponse(200, EncodeIntrospection(r.resp))

\* introspection with a replay cache: a token just reported active is
\* reported inactive when presented again
IntrospectionExchange_Replay(kp, req, ticks) ==
  LET tokenString == extractTokenFromRequest(req)
      parsed == validateToken(tokenString, kp, ticks)
  IN IF req.method # "POST"
       THEN Exchange("introspect", req, HttpError("Method not allowed", <<>>, 405),
              ticks, <<>>, NoValidation)
     ELSE IF tokenString = <<>>
       THEN Exchange("introspect", req,
              writeIntrospectionError(400, "No token provided"),
              ticks, <<>>, NoValidation)
     ELSE IF parsed.err # "nil"
             \/ (last.kind = "introspect" /\ last.token = tokenString
                   /\ last.val.err = "nil")
       THEN Exchange("introspect", req,
              writeIntrospectionError(200, "Token validation failed"),
              ticks, tokenString, parsed)
     ELSE Exchange("introspect", req, IntrospectionResult(parsed),
            ticks, tokenString, parsed)

\* HandleIntrospection without the check for an empty token string
IntrospectionExchange_NoTokenCheck(kp, req, ticks) ==
  LET tokenString == extractTokenFromRequest(req)
      parsed == validateToken(tokenString, kp, ticks)
  IN IF req.method # "POST"
       THEN Exchange("introspect", req, HttpError("Method not allowed", <<>>, 405),
              ticks, <<>>, NoValidation)
     ELSE IF parsed.err # "nil"
       THEN Exchange("introspect", req,
              writeIntrospectionError(200, "Token validation failed"),
              ticks, tokenString, parsed)
     ELSE Exchange("introspect", req, IntrospectionResult(parsed),
            ticks, tokenString, parsed)

\* the exchange HandleIntrospection completes for req at clock reading ticks
IntrospectionExchange(kp, req, ticks) ==
  LET tokenString == extractTokenFromRequest(req)
      parsed == validateToken(tokenString, kp, ticks)
  IN IF req.method # "POST"
       THEN Exchange("introspect", req, HttpError("Method not allowed", <<>>, 405),
              ticks, <<>>, NoValidation)
     ELSE IF tokenString = <<>>
       THEN Exchange("introspect", req,
              writeIntrospectionError(400, "No token provided"),
              ticks, <<>>, NoValidation)
     ELSE IF parsed.err # "nil"
       THEN Exchange("introspect", req,
              writeIntrospectionError(200, "Token validation failed"),
              ticks, tokenString, parsed)
     ELSE Exchange("introspect", req, IntrospectionResult(parsed),
            ticks, tokenString, parsed)

\* HandleIntrospection
HandleIntrospection ==
  /\ \E req \in IntrospectRequests(held) :
       last' = IntrospectionExchange(keyPair, req, now)
  /\ UNCHANGED <<keyPair, userPool, now, slots, held, memo, probe, call, dir, files, op>>

Next ==
  \/ Tick
  \/ \E i \in SlotIds : TokenAuth(i)
  \/ \E i \in SlotIds : TokenGenerate(i)
  \/ HandleJWKS
  \/ HandleIntrospection

Spec == Init /\ [][Next]_vars

(***************************************************************************)
(* Properties of the token and introspection endpoints.                    *)
(***************************************************************************)
JsonOk == last.resp.status = 200 /\ last.resp.ctype = "application/json"

\* the claims segment of a compact token of three one-unit segments
ClaimsSegment(tok) == tok[3].seg

\* C1: a POST to the token endpoint with Basic base64(id:secret), for any
\* pair of the credential store, is answered 200 with a Bearer token whose
\* subject is id and expires_in 3600.
C1_StoredCredentialsGetToken ==
  \A id \in DOMAIN userPool :
    (/\ last.kind = "token"
     /\ last.req.method = "POST"
     /\ last.req.auth = BasicHeader(id, userPool[id]))
      => /\ JsonOk
         /\ last.resp.body.token_type = "Bearer"
         /\ last.resp.body.expires_in = 3600
         /\ ClaimsSegment(last.resp.body.access_token).sub = id

C1_Witness ==
  /\ last.kind = "token"
  /\ last.req.method = "POST"
  /\ last.req.auth = BasicHeader(sSho, sTest123)
  /\ JsonOk
  /\ ClaimsSegment(last.resp.body.access_token).sub = sSho

\* C2: every POST to the token endpoint whose Authorization header is not
\* the Basic encoding of a stored pair (absent, wrong scheme, invalid base64,
\* missing separator, wrong secret, unknown client) is answered 401 with a
\* JSON body whose error is invalid_client.
C2_MalformedHeaderIsInvalidClient ==
  (/\ last.kind = "token"
   /\ last.req.method = "POST"
   /\ \A id \in DOMAIN userPool : last.req.auth # BasicHeader(id, userPool[id]))
    => /\ last.resp.status = 401
       /\ last.resp.ctype = "application/json"
       /\ last.resp.body.error = "invalid_client"

\* C3: a token issued by GenerateToken with the configured key pair and
\* introspected before its expiry is reported active with the subject and
\* the issuer that were put into it.
C3_RoundTrip ==
  \A u \in DOMAIN userPool, t \in Instants :
    LET g == GenerateToken(keyPair.privateKey, u, t)
    IN (/\ last.kind = "introspect"
        /\ last.req.method = "POST"
        /\ last.token = g.token
        /\ t <= last.at
        /\ last.at < Unix(ClaimsSegment(g.token).exp) * TicksPerSecond)
         => /\ JsonOk
            /\ last.resp.body.active = TRUE
            /\ last.resp.body.sub = u
            /\ last.resp.body.iss = "oauth2-server"

C3_Witness ==
  /\ last.kind = "introspect"
  /\ held # <<>>
  /\ last.token = held
  /\ JsonOk
  /\ last.resp.body.active = TRUE
  /\ last.at > Unix(ClaimsSegment(held).iat) * TicksPerSecond

\* three dot-separated segments of which the first two decode to objects
WellFormed(tok) ==
  /\ Len(tok) = 5
  /\ tok[2] = Ch(46)
  /\ tok[4] = Ch(46)
  /\ \A i \in {1, 3, 5} : IsSeg(tok[i])
  /\ tok[1].seg.t = "header"
  /\ tok[3].seg.t \in {"header", "claims"}

\* the third segment is the signature of the first two, made by the private
\* half of pub with the algorithm the header declares
SignedBy(tok, pub) ==
  /\ tok[5].seg.t = "sig"
  /\ tok[5].seg.key = pub.id
  /\ tok[5].seg.alg = tok[1].seg.alg
  /\ tok[5].seg.msg = <<<<tok[1]>>, <<tok[3]>>>>

\* expiry not reached and not-before reached at clock reading ticks
InValidityWindow(tok, ticks) ==
  LET c == IF tok[3].seg.t = "claims" THEN tok[3].seg ELSE EmptyClaims
  IN /\ c.exp = <<>> \/ ticks < c.exp[1] * TicksPerSecond
     /\ c.nbf = <<>> \/ ticks >= c.nbf[1] * TicksPerSecond

AllStagesPass(tok, pub, ticks) ==
  /\ WellFormed(tok)
  /\ SignedBy(tok, pub)
  /\ InValidityWindow(tok, ticks)

\* C4: introspection reports active=true only for a token that parses, whose
\* signature verifies under the configured public key and whose temporal
\* claims hold; a token presented by POST that fails any stage is reported
\* active=false.
C4_ActiveOnlyIfAllStagesPass ==
  /\ (last.kind = "introspect" /\ JsonOk /\ last.resp.body.active = TRUE)
       => AllStagesPass(last.token, keyPair.publicKey, last.at)
  /\ (/\ last.kind = "introspect"
      /\ last.req.method = "POST"
      /\ last.token # <<>>
      /\ ~AllStagesPass(last.token, keyPair.publicKey, last.at))
       => (JsonOk /\ last.resp.body.active = FALSE)

C4_Witness ==
  /\ last.kind = "introspect"
  /\ last.token = SignedString("RS256", "K2", GoodClaims)
  /\ keyPair.publicKey.id # "K2"
  /\ JsonOk
  /\ last.resp.body.active = FALSE

\* the header segment declares an algorithm outside the RSA family
DeclaresNonRSA(tok) ==
  /\ Len(tok) >= 1
  /\ IsSeg(tok[1])
  /\ tok[1].seg.t = "header"
  /\ tok[1].seg.alg \notin {"RS256", "RS384", "RS512"}

\* C5: the key function hands out the public key only for tokens declaring
\* an RSA-family algorithm; for any other declared algorithm it returns
\* ErrSignatureInvalid whenever it is called, and the token is reported
\* inactive whatever its signature.
C5_PublicKeyOnlyForRSA ==
  (last.kind = "introspect" /\ last.req.method = "POST" /\ DeclaresNonRSA(last.token))
    => /\ last.val.keyfunc \in {"ErrSignatureInvalid", "notcalled"}
       /\ (WellFormed(last.token) /\ last.token[1].seg.alg \in RegisteredAlgs)
            => last.val.keyfunc = "ErrSignatureInvalid"
       /\ JsonOk
       /\ last.resp.body.active = FALSE

C5_Witness ==
  /\ last.kind = "introspect"
  /\ last.token = SignedString("PS256", "K1", GoodClaims)
  /\ keyPair.publicKey.id = "K1"
  /\ last.val.keyfunc = "ErrSignatureInvalid"
  /\ last.resp.body.active = FALSE

\* C6: a non-empty token presented by POST that fails validation is answered
\* 200 with the body {"active":false} and no other field, whatever the cause.
C6_FailureIsActiveFalseOnly ==
  (/\ last.kind = "introspect"
   /\ last.req.method = "POST"
   /\ last.token # <<>>
   /\ last.val.err # "nil")
    => last.resp = [status |-> 200, ctype |-> "application/json",
                    body |-> [active |-> FALSE]]

C6_Witness ==
  /\ last.kind = "introspect"
  /\ last.token # <<>>
  /\ last.val.err = "ErrTokenInvalidClaims"
  /\ last.resp.body = [active |-> FALSE]

\* C7: every token GenerateToken returns carries the fixed issuer, a
\* non-empty subject equal to the identifier supplied, not-before equal to
\* issued-at, and expires-at exactly 3600 seconds after issued-at.
C7_IssuedClaims ==
  [][\A i \in SlotIds :
       (slots[i].pc = "generate" /\ slots'[i].pc = "idle"
          /\ last'.resp.status = 200)
         => LET c == ClaimsSegment(last'.resp.body.access_token)
            IN /\ c.iss = "oauth2-server"
               /\ c.sub # <<>>
               /\ c.sub = slots[i].basicAuth.Username
               /\ c.iat[1] <= c.nbf[1]
               /\ c.nbf[1] <= c.exp[1]
               /\ c.nbf = c.iat
               /\ c.exp[1] - c.iat[1] = 3600]_vars

C7_Witness ==
  /\ last.kind = "token"
  /\ JsonOk
  /\ last.at % TicksPerSecond # 0
  /\ ClaimsSegment(last.resp.body.access_token).iat[1] * TicksPerSecond < last.at

\* C8: no request changes the key pair or the credential map, whatever the
\* interleaving of the requests.
C8_ConfigurationNeverChanges ==
  [][keyPair' = keyPair /\ userPool' = userPool]_vars

C8_Witness ==
  /\ \A i \in SlotIds : slots[i].pc = "generate"
  /\ last.kind = "introspect"
  /\ held # <<>>

\* the base64url text s, unpadded, stands for the bytes b (RFC 4648 section 5)
IsBase64URLOf(s, b) ==
  /\ \A i \in 1..Len(s) : s[i] \notin {43, 47, 61}
  /\ Len(s) % 4 # 1
  /\ LET std == [i \in 1..Len(s) |->
                   IF s[i] = 45 THEN 43 ELSE IF s[i] = 95 THEN 47 ELSE s[i]]
         padded == std \o (IF Len(s) % 4 = 2 THEN <<61, 61>>
                           ELSE IF Len(s) % 4 = 3 THEN <<61>> ELSE <<>>)
     IN DecodeString(padded) = [ok |-> TRUE, bytes |-> b]

\* the unsigned integer a big-endian byte string stands for
RECURSIVE BigValue(_)
BigValue(b) ==
  IF Len(b) = 0 THEN 0 ELSE BigValue(SubSeq(b, 1, Len(b) - 1)) * 256 + b[Len(b)]

JwksServed == last.kind = "jwks" /\ last.req.method = "GET"

\* C14: every GET of the key set is answered 200 with exactly one entry
\* (kty RSA, use sig, alg RS256) whose n and e are the base64url encodings of
\* the configured modulus and exponent, and a repeated GET gets the same
\* response.
C14_KeySetOfConfiguredKey ==
  /\ [](JwksServed =>
          /\ JsonOk
          /\ Len(last.resp.body.keys) = 1
          /\ last.resp.body.keys[1].kty = "RSA"
          /\ last.resp.body.keys[1].use = "sig"
          /\ last.resp.body.keys[1].alg = "RS256"
          /\ IsBase64URLOf(last.resp.body.keys[1].n, keyPair.publicKey.N)
          /\ LET b == BigBytes(keyPair.publicKey.E)
             IN /\ b[1] # 0
                /\ BigValue(b) = keyPair.publicKey.E
                /\ IsBase64URLOf(last.resp.body.keys[1].e, b))
  /\ [][(JwksServed /\ JwksServed') => last'.resp = last.resp]_vars

C14_Witness ==
  /\ JwksServed
  /\ last.resp.body.keys[1].n = <<45, 95, 45, 45, 66, 65>>
  /\ last.resp.body.keys[1].e = <<65, 81, 65, 66>>

\* the members a response body has (none for a plain-text body)
BodyMembers(resp) ==
  IF resp.ctype = "application/json" THEN DOMAIN resp.body ELSE {}

\* the method the endpoint of an exchange serves
OwnMethod(kind) == IF kind = "jwks" THEN "GET" ELSE "POST"

\* C15: each endpoint answers every method other than its own (POST for
\* token issuance and introspection, GET for the key set) with 405 before
\* anything else: such a request never gets a token, a key set or an
\* introspection result, is never validated, and never reaches token
\* generation, whatever it carries.
C15_WrongMethodIs405 ==
  /\ (last.kind # "none" /\ last.req.method # OwnMethod(last.kind)) =>
        /\ last.resp.status = 405
        /\ BodyMembers(last.resp) \cap {"access_token", "keys", "active"} = {}
        /\ last.val = NoValidation
        /\ last.token = <<>>
  /\ \A i \in SlotIds :
        slots[i].pc = "generate" => slots[i].req.method = "POST"

C15_Witness ==
  /\ last.kind = "introspect"
  /\ last.req.method = "GET"
  /\ held # <<>>
  /\ last.req.form = held
  /\ last.resp.status = 405

(***************************************************************************)
(* Observation of repeated introspection.  An observer remembers an        *)
(* introspection exchange of the held token; memo.later records that a     *)
(* token was issued after it.                                               *)
(***************************************************************************)
InitObserved == Init /\ userPool = Default

Remember ==
  /\ last.kind = "introspect"
  /\ last.token # <<>>
  /\ last.token = held
  /\ memo' = [set |-> TRUE, later |-> FALSE, token |-> last.token,
              at |-> last.at, resp |-> last.resp]
  /\ UNCHANGED <<keyPair, userPool, now, slots, last, held, probe, call, dir, files, op>>

NextObserved ==
  \/ Next
  \/ Remember

SpecObserved == InitObserved /\ [][NextObserved]_vars

\* C9: the introspection result for a token string at a clock reading is the
\* same whatever happened before: a token introspected again at the same
\* clock reading, after other introspections and after further tokens were
\* issued, gets the response it got the first time.
C9_Stateless ==
  (/\ memo.set
   /\ last.kind = "introspect"
   /\ last.token = memo.token
   /\ last.at = memo.at)
    => last.resp = memo.resp

C9_Witness ==
  /\ memo.set
  /\ memo.later
  /\ last.kind = "introspect"
  /\ last.token = memo.token
  /\ last.at = memo.at
  /\ last.req.auth # <<>>
  /\ last.resp.status = 200
  /\ last.resp.body.active = TRUE

\* the last exchange is a token request answered with a token
TokenIssued == last.kind = "token" /\ JsonOk

\* C27: each token request validates the credentials in a BasicAuth value
\* of its own, and ParseBasicAuth sets Username and Password only when it
\* succeeds: under every interleaving of concurrent token requests the
\* subject of an issued token is the client ID the same request
\* authenticated, never one validated by another request.
C27_SubjectOfOwnRequest ==
  /\ \A h \in AuthHeaders(userPool) :
       LET ba == ParseBasicAuth(userPool, h)
       IN IF ba.err = "nil"
            THEN h = BasicHeader(ba.Username, ba.Password)
            ELSE ba.Username = <<>> /\ ba.Password = <<>>
  /\ \A i \in SlotIds :
       slots[i].pc = "generate" =>
         /\ slots[i].basicAuth.Username \in DOMAIN userPool
         /\ slots[i].req.auth =
              BasicHeader(slots[i].basicAuth.Username,
                          userPool[slots[i].basicAuth.Username])
  /\ TokenIssued =>
       LET sub == ClaimsSegment(last.resp.body.access_token).sub
       IN /\ sub \in DOMAIN userPool
          /\ last.req.auth = BasicHeader(sub, userPool[sub])

C27_Witness ==
  /\ TokenIssued
  /\ \E i \in SlotIds :
       /\ slots[i].pc = "generate"
       /\ slots[i].basicAuth.Username # ClaimsSegment(last.resp.body.access_token).sub
       /\ slots[i].req.auth # last.req.auth

\* the exchange is a token request with a well-formed Basic header naming
\* an unknown client, or a known client with a wrong secret
UnknownClient(x) ==
  x.kind = "token" /\ x.req.method = "POST" /\ x.req.auth = BasicHeader(sBob, sTest123)

WrongSecret(x) ==
  /\ x.kind = "token"
  /\ x.req.method = "POST"
  /\ \E id \in DOMAIN userPool : x.req.auth = BasicHeader(id, sWrong)

\* C28: for a well-formed Basic header the response of the token endpoint
\* (status, error, error_description) to an unknown client ID is the one it
\* gives to a known client ID with a wrong secret, so that it does not
\* tell whether the client ID is in the credential store.
C28_UnknownLikeWrongSecret ==
  /\ []((UnknownClient(last) \/ WrongSecret(last)) =>
          /\ last.resp.status = 401
          /\ last.resp.ctype = "application/json"
          /\ DOMAIN last.resp.body = {"error", "error_description"}
          /\ last.resp.body.error = "invalid_client"
          /\ \A id \in DOMAIN userPool :
               /\ last.resp = TokenAuthOutcome(userPool,
                    [method |-> "POST", form |-> <<>>,
                     auth |-> BasicHeader(id, sWrong)]).resp
               /\ last.resp = TokenAuthOutcome(userPool,
                    [method |-> "POST", form |-> <<>>,
                     auth |-> BasicHeader(sBob, userPool[id])]).resp)
  /\ [][((UnknownClient(last) \/ WrongSecret(last))
          /\ (UnknownClient(last') \/ WrongSecret(last'))) =>
            last'.resp = last.resp]_vars

C28_Witness ==
  /\ UnknownClient(last)
  /\ sBob \notin DOMAIN userPool
  /\ last.resp.status = 401
  /\ last.resp.body.error_description = "Invalid username or password"

\* C29: for every token that passes validateToken, a correctly signed RSA
\* token without expires-at, issued-at or not-before included,
\* HandleIntrospection completes and writes a well-formed 200 response
\* with active true or false; introspectToken never fails while reading
\* the temporal claims.
C29_IntrospectionCompletes ==
  (/\ last.kind = "introspect"
   /\ last.req.method = "POST"
   /\ last.token # <<>>
   /\ last.val.err = "nil") =>
     /\ last.resp # PanicResponse
     /\ JsonOk
     /\ last.resp.body.active \in BOOLEAN

\* the last exchange is an introspection of the token the client holds
IntrospectedHeld ==
  /\ last.kind = "introspect"
  /\ last.req.method = "POST"
  /\ held # <<>>
  /\ last.token = held

\* C26: the clock never goes back; a token issued by the token endpoint is
\* reported active by every introspection made from its issuance until its
\* expires-at and inactive by every introspection made at or after its
\* expires-at; once reported inactive it is not reported active again.
C26_ActiveUntilExpiry ==
  /\ [][now' >= now]_vars
  /\ [](IntrospectedHeld =>
          /\ JsonOk
          /\ last.at >= Unix(ClaimsSegment(held).iat) * TicksPerSecond
          /\ last.resp.body.active =
               (last.at < Unix(ClaimsSegment(held).exp) * TicksPerSecond))
  /\ []((/\ memo.set
          /\ memo.resp.status = 200
          /\ memo.resp.body.active = FALSE
          /\ last.kind = "introspect"
          /\ last.req.method = "POST"
          /\ last.token = memo.token) =>
            (JsonOk /\ last.resp.body.active = FALSE))

C26_Witness ==
  /\ IntrospectedHeld
  /\ memo.set
  /\ memo.token = held
  /\ memo.at = Unix(ClaimsSegment(held).exp) * TicksPerSecond
  /\ memo.resp.body.active = FALSE
  /\ last.at > memo.at
  /\ last.resp.body.active = FALSE

(***************************************************************************)
(* ParseBasicAuth applied to headers built from their parts.               *)
(***************************************************************************)
sWithColon == <<120, 58, 121>>

ProbeSchemes == {sBasic, sBearer}

ProbeSeparators == {<<>>, sSpace, sSpace \o sSpace}

ProbeKinds == {"pair", "nocolon", "badb64", "truncated"}

ProbeIds(pool) == DOMAIN pool \cup {sBob, <<>>}

ProbeSecrets(pool) == {pool[id] : id \in DOMAIN pool} \cup {sWrong, sWithColon, <<>>}

\* the payload of the given kind: the encoding of id:secret, the encoding of
\* id alone, a string with a character outside the alphabet, or the encoding
\* of id:secret without its last character
ProbePayload(kind, id, secret) ==
  LET pair == EncodeToString(id \o sColon \o secret)
  IN IF kind = "pair" THEN pair
     ELSE IF kind = "nocolon" THEN EncodeToString(id)
     ELSE IF kind = "badb64" THEN sInvalidBase64
     ELSE SubSeq(pair, 1, Len(pair) - 1)

ProbeResult(kind, scheme, sep, id, secret, header) ==
  [set |-> TRUE, scheme |-> scheme, sep |-> sep, kind |-> kind, id |-> id,
   secret |-> secret, header |-> header, out |-> ParseBasicAuth(userPool, header)]

\* ParseBasicAuth on a header made of a scheme, a separator and a payload
ParseHeader ==
  /\ \E kind \in ProbeKinds, scheme \in ProbeSchemes, sep \in ProbeSeparators,
        id \in ProbeIds(userPool), secret \in ProbeSecrets(userPool) :
       probe' = ProbeResult(kind, scheme, sep, id, secret,
                  scheme \o sep \o ProbePayload(kind, id, secret))
  /\ UNCHANGED <<keyPair, userPool, now, slots, last, held, memo, call, dir, files, op>>

\* ParseBasicAuth on the empty header
ParseAbsent ==
  /\ probe' = ProbeResult("absent", <<>>, <<>>, <<>>, <<>>, <<>>)
  /\ UNCHANGED <<keyPair, userPool, now, slots, last, held, memo, call, dir, files, op>>

NextParse ==
  \/ ParseHeader
  \/ ParseAbsent

SpecParse == Init /\ [][NextParse]_vars

\* the error the first failing check gives, from the parts the header was
\* built of
ExpectedError(p, pool) ==
  IF p.header = <<>> THEN "ErrMissingHeader"
  ELSE IF p.scheme # <<66, 97, 115, 105, 99>> \/ p.sep # <<32>> THEN "ErrInvalidFormat"
  ELSE IF p.kind \in {"badb64", "truncated"} THEN "ErrInvalidBase64"
  ELSE IF p.kind = "nocolon" THEN "ErrInvalidFormat"
  ELSE IF p.id \notin DOMAIN pool \/ pool[p.id] # p.secret THEN "ErrInvalidCredentials"
  ELSE "nil"

\* C10 as amended: ParseBasicAuth succeeds only when the pool maps the decoded
\* client ID to exactly the decoded secret, and otherwise returns the error
\* of the first failing check, in this order: ErrMissingHeader (empty
\* header), ErrInvalidFormat (not exactly two space-separated parts, or a
\* scheme other than Basic), ErrInvalidBase64 (payload not valid base64),
\* ErrInvalidFormat again (decoded payload without ':'), ErrInvalidCredentials
\* (client unknown or secret mismatch): four distinct errors, the missing
\* separator sharing its error with the malformed header.
C10_FirstFailingCheck ==
  probe.set =>
    /\ probe.out.err = ExpectedError(probe, userPool)
    /\ probe.out.err = "nil"
         => (probe.out.Username = probe.id /\ probe.out.Password = probe.secret)
    /\ probe.out.err # "nil"
         => (probe.out.Username = <<>> /\ probe.out.Password = <<>>)

C10_Witness ==
  /\ probe.set
  /\ probe.scheme = sBasic
  /\ probe.sep = sSpace
  /\ probe.kind = "nocolon"
  /\ probe.id = sSho
  /\ probe.out.err = "ErrInvalidFormat"

\* C10 as stated: the failure for a decoded payload without ':' separator is
\* an outcome of its own, distinct from success and from the outcomes of the
\* four other checks.
C10_FiveDistinctOutcomes ==
  (/\ probe.set
   /\ probe.scheme = sBasic
   /\ probe.sep = sSpace
   /\ probe.kind = "nocolon")
    => probe.out.err \notin
         {"nil", "ErrMissingHeader", "ErrInvalidFormat", "ErrInvalidBase64",
          "ErrInvalidCredentials"}

(***************************************************************************)
(* Functions of the server applied to drawn arguments.                     *)
(***************************************************************************)
\* the *rsa.PrivateKey values a Generator is built with: nil, a key with no
\* private exponent and no primes, and the parsed keys
GeneratorKeys ==
  LET NilPrivateKey == [nil |-> TRUE, id |-> "", valid |-> FALSE]
      InvalidPrivateKey == [nil |-> FALSE, id |-> "K1", valid |-> FALSE]
  IN {NilPrivateKey, InvalidPrivateKey}
       \cup {ParsePrivateKey(k).privateKey : k \in Keys}

\* NewGenerator(privateKey).GenerateToken(username)
CallGenerateToken ==
  /\ \E privateKey \in GeneratorKeys, username \in {<<>>, sSho, sTestuser},
        t \in Instants :
       call' = [fn |-> "GenerateToken", privateKey |-> privateKey,
                username |-> username, at |-> t,
                out |-> GenerateToken(privateKey, username, t)]
  /\ UNCHANGED <<keyPair, userPool, now, slots, last, held, memo, probe, dir, files, op>>

\* the Authorization headers: what precedes the token ("Bearer ", "Bearer",
\* "bearer ", "Basic ", " Bearer "), then nothing, a token, or a token after
\* one more space
BearerHeaders ==
  LET sLowerBearer == <<98, 101, 97, 114, 101, 114>>
      tok == SignedString("RS256", "K1", GoodClaims)
      HeaderPrefixes ==
        {Chars(sBearer \o sSpace), Chars(sBearer), Chars(sLowerBearer \o sSpace),
         Chars(sBasic \o sSpace), Chars(sSpace \o sBearer \o sSpace)}
      HeaderRests == {<<>>, Junk, tok, Chars(sSpace) \o tok}
  IN {p \o r : p \in HeaderPrefixes, r \in HeaderRests}

\* extractTokenFromRequest on a request with a form field and a header
CallExtract ==
  /\ \E form \in {<<>>, Junk, SignedString("RS256", "K2", GoodClaims)},
        auth \in {<<>>} \cup BearerHeaders :
       LET req == [method |-> "POST", form |-> form, auth |-> auth]
       IN call' = [fn |-> "extractTokenFromRequest", req |-> req,
                   out |-> extractTokenFromRequest(req)]
  /\ UNCHANGED <<keyPair, userPool, now, slots, last, held, memo, probe, dir, files, op>>

\* the tokens TestIntrospectToken builds by hand: valid, not valid, and
\* valid with claims of another type (jwt.MapClaims{}, which are not
\* *jwt.RegisteredClaims)
BuiltTokens ==
  LET MapClaims == [t |-> "map"]
  IN {[Valid |-> v, claims |-> c, err |-> "nil", keyfunc |-> "notcalled"] :
        v \in BOOLEAN, c \in {GoodClaims, EmptyClaims, MapClaims}}

\* introspectToken on a token built by hand or returned by validateToken
CallIntrospect ==
  /\ \/ \E parsed \in BuiltTokens :
          call' = [fn |-> "introspectToken", source |-> <<>>,
                   parsedToken |-> parsed, out |-> introspectToken(parsed)]
     \/ \E tok \in ForgedTokens, t \in Instants :
          LET parsed == validateToken(tok, keyPair, t)
          IN call' = [fn |-> "introspectToken", source |-> tok,
                      parsedToken |-> parsed, out |-> introspectToken(parsed)]
  /\ UNCHANGED <<keyPair, userPool, now, slots, last, held, memo, probe, dir, files, op>>

\* C11: GenerateToken fails with the empty string as token when the private
\* key is nil, when it fails validation, or when the username is empty; the
\* key checks come before the username check (a bad key with an empty
\* username gives the key's error), and nothing is signed in these cases.
C11_GenerateTokenFailures ==
  call.fn = "GenerateToken" =>
    /\ call.privateKey.nil => call.out.err = "ErrNilPrivateKey"
    /\ (~call.privateKey.nil /\ ~call.privateKey.valid) =>
          call.out.err = "ErrInvalidKey"
    /\ (~call.privateKey.nil /\ call.privateKey.valid /\ call.username = <<>>) =>
          call.out.err = "ErrEmptyUsername"
    /\ call.out.err # "nil" => (call.out.token = <<>> /\ ~call.out.signed)
    /\ call.out.err = "nil" =>
          (~call.privateKey.nil /\ call.privateKey.valid /\ call.username # <<>>)

C11_Witness ==
  /\ call.fn = "GenerateToken"
  /\ ~call.privateKey.nil
  /\ ~call.privateKey.valid
  /\ call.username = <<>>
  /\ call.out.err = "ErrInvalidKey"
  /\ call.out.token = <<>>

\* the strings r with auth = "Bearer " r
BearerRemainders(auth) ==
  {r \in {SubSeq(auth, k, Len(auth)) : k \in 1..(Len(auth) + 1)} :
     auth = BearerPrefix \o r}

\* C12: extraction returns the form field whenever it is non-empty, whatever
\* the Authorization header; with an empty form field it returns what
\* follows "Bearer " in a header starting with exactly that, verbatim; and
\* the empty string in every other case.
C12_ExtractionPrecedence ==
  call.fn = "extractTokenFromRequest" =>
    /\ call.req.form # <<>> => call.out = call.req.form
    /\ (call.req.form = <<>> /\ BearerRemainders(call.req.auth) # {}) =>
          call.out \in BearerRemainders(call.req.auth)
    /\ (call.req.form = <<>> /\ BearerRemainders(call.req.auth) = {}) =>
          call.out = <<>>

C12_Witness ==
  /\ call.fn = "extractTokenFromRequest"
  /\ call.req.form = <<>>
  /\ call.req.auth =
       BearerPrefix \o Chars(sSpace) \o SignedString("RS256", "K1", GoodClaims)
  /\ call.out = Chars(sSpace) \o SignedString("RS256", "K1", GoodClaims)

\* the claims of the token an introspectToken call is about: those encoded
\* in the presented string, or those the token was built with
PresentedClaims ==
  IF call.source # <<>> THEN ClaimsSegment(call.source)
  ELSE call.parsedToken.claims

\* C13: an active result carries token_type "Bearer" and the subject,
\* issuer, expires-at, issued-at and not-before of the presented token; a
\* token that is not valid, or whose claims are not registered claims, gives
\* active=false with every other field empty.
C13_IntrospectionFields ==
  call.fn = "introspectToken" =>
    /\ (~call.out.panic /\ call.out.resp.active) =>
          /\ call.out.resp.token_type = "Bearer"
          /\ call.out.resp.sub = PresentedClaims.sub
          /\ call.out.resp.iss = PresentedClaims.iss
          /\ <<call.out.resp.exp>> = PresentedClaims.exp
          /\ <<call.out.resp.iat>> = PresentedClaims.iat
          /\ <<call.out.resp.nbf>> = PresentedClaims.nbf
    /\ (~call.parsedToken.Valid \/ call.parsedToken.claims.t # "claims") =>
          /\ ~call.out.panic
          /\ ~call.out.resp.active
          /\ \A f \in DOMAIN call.out.resp \ {"active"} :
                IsZeroField(f, call.out.resp[f])

C13_Witness ==
  /\ call.fn = "introspectToken"
  /\ call.source = SignedString("RS256", "K1", GoodClaims)
  /\ call.out.resp.active
  /\ call.out.resp.sub = sSho
  /\ call.out.resp.exp = FarFuture[1]
  /\ call.out.resp.iat = LongAgo[1]

\* C16: a POST to the introspection endpoint with no form field and no
\* Authorization header that has something after "Bearer " is answered 400
\* with an error body, not with an active/inactive result, and the token is
\* not validated.
C16_NoTokenIs400 ==
  (/\ last.kind = "introspect"
   /\ last.req.method = "POST"
   /\ last.req.form = <<>>
   /\ BearerRemainders(last.req.auth) \subseteq {<<>>}) =>
    /\ last.resp.status = 400
    /\ BodyMembers(last.resp) = {"error"}
    /\ last.val = NoValidation

C16_Witness ==
  /\ last.kind = "introspect"
  /\ last.req.method = "POST"
  /\ last.req.form = <<>>
  /\ last.req.auth = BearerPrefix
  /\ last.resp.status = 400
  /\ held # <<>>

(***************************************************************************)
(* The key manager of the key tool (package rsa): key pairs kept as two    *)
(* PEM files per key ID in the keys directory.  The operator runs one      *)
(* operation at a time.  A call of the operating system that writes or     *)
(* removes a file may fail; the outcome of each such call is drawn.        *)
(***************************************************************************)
\* smallest key size GenerateKeyPair accepts
MinKeyBits == 2048

NilErr == [is |-> "nil", msg |-> ""]

\* errors.New(msg), and fmt.Errorf wrapping a sentinel or an OS error
NewError(msg) == [is |-> "", msg |-> msg]

Wrap(sentinel, msg) == [is |-> sentinel, msg |-> msg]

\* a nil pointer (*KeyPair, *rsa.PrivateKey, *rsa.PublicKey)
Nil == [nil |-> TRUE]

\* the modulus of the key rsa.GenerateKey draws: bits/8 bytes, the first
\* with its top bit set
Modulus(lead, bits) ==
  [i \in 1..(bits \div 8) |-> IF i = 1 THEN lead ELSE (lead + 7 * i) % 256]

\* an *rsa.PrivateKey; ok tells whether D and the primes fit N and E
RsaPrivateKey(N, E, ok) == [nil |-> FALSE, N |-> N, E |-> E, ok |-> ok]

\* &privateKey.PublicKey
PublicOf(priv) == [nil |-> FALSE, N |-> priv.N, E |-> priv.E]

\* (*rsa.PrivateKey).Validate
Validate(priv) == priv.ok

\* the keys rsa.GenerateKey(rand.Reader, bits) may return
GeneratedKeys(bits) ==
  {RsaPrivateKey(Modulus(lead, bits), 65537, TRUE) : lead \in {200, 131}}

\* fmt.Sprintf("%x", b): two lower-case hexadecimal digits per byte
RECURSIVE Hex(_)
Hex(b) ==
  LET HexDigit(n) == IF n < 10 THEN 48 + n ELSE 87 + n
  IN IF Len(b) = 0 THEN <<>>
     ELSE <<HexDigit(b[1] \div 16), HexDigit(b[1] % 16)>> \o Hex(Tail(b))

\* the key ID: the first 8 bytes of the modulus in hexadecimal
KeyIDOf(N) == Hex(SubSeq(N, 1, 8))

\* GenerateKeyPair without the check of the key size
GenerateKeyPair_AnySize(bits, drawn) ==
  IF drawn = Nil
    THEN [kp |-> Nil, err |-> Wrap("ErrKeyGeneration", "")]
  ELSE [kp |-> [nil |-> FALSE, PrivateKey |-> drawn, PublicKey |-> PublicOf(drawn),
                KeyID |-> KeyIDOf(drawn.N)],
        err |-> NilErr]

\* GenerateKeyPair(bits); drawn is what rsa.GenerateKey returns, Nil when
\* it fails
GenerateKeyPair(bits, drawn) ==
  IF bits < MinKeyBits
    THEN [kp |-> Nil, err |-> Wrap("ErrInvalidKeySize", "")]
  ELSE IF drawn = Nil
    THEN [kp |-> Nil, err |-> Wrap("ErrKeyGeneration", "")]
  ELSE [kp |-> [nil |-> FALSE, PrivateKey |-> drawn, PublicKey |-> PublicOf(drawn),
                KeyID |-> KeyIDOf(drawn.N)],
        err |-> NilErr]

\* x509.MarshalPKCS1PrivateKey and x509.MarshalPKCS1PublicKey: the DER
\* encoding of the key's numbers
MarshalPKCS1PrivateKey(priv) ==
  [asn1 |-> "RSAPrivateKey", N |-> priv.N, E |-> priv.E, ok |-> priv.ok]

MarshalPKCS1PublicKey(pub) == [asn1 |-> "RSAPublicKey", N |-> pub.N, E |-> pub.E]

\* x509.ParsePKCS1PrivateKey: the structure must be an RSAPrivateKey whose
\* numbers validate
ParsePKCS1PrivateKey(der) ==
  IF der.asn1 = "RSAPrivateKey" /\ der.ok
    THEN [key |-> RsaPrivateKey(der.N, der.E, TRUE), ok |-> TRUE]
    ELSE [key |-> Nil, ok |-> FALSE]

ParsePKCS1PublicKey(der) ==
  IF der.asn1 = "RSAPublicKey"
    THEN [key |-> [nil |-> FALSE, N |-> der.N, E |-> der.E], ok |-> TRUE]
    ELSE [key |-> Nil, ok |-> FALSE]

\* pem.EncodeToMemory and pem.Decode; a file cut short holds no PEM block
PemEncodeToMemory(type, bytes) == [pem |-> TRUE, type |-> type, bytes |-> bytes]

Truncated == [pem |-> FALSE]

PemDecode(data) == IF data.pem THEN data ELSE Nil

\* filepath.Join(m.keysDir, keyID + ".private.pem"), within the directory
PrivateKeyPath(keyID) ==
  LET sPrivatePem == <<46, 112, 114, 105, 118, 97, 116, 101, 46, 112, 101, 109>>
  IN keyID \o sPrivatePem

\* filepath.Join(m.keysDir, keyID + ".public.pem")
PublicKeyPath(keyID) ==
  LET sPublicPem == <<46, 112, 117, 98, 108, 105, 99, 46, 112, 101, 109>>
  IN keyID \o sPublicPem

\* os.WriteFile(name, data, perm): "ok"; "open" when the file cannot be
\* opened or created (nothing changes); "write" when writing fails after
\* the file was created or truncated.  An existing file keeps its mode.
WriteFile(fs, name, data, perm, outcome) ==
  LET mode == IF name \in DOMAIN fs THEN fs[name].mode ELSE perm
  IN IF outcome = "ok" THEN (name :> [mode |-> mode, data |-> data]) @@ fs
     ELSE IF outcome = "write" THEN (name :> [mode |-> mode, data |-> Truncated]) @@ fs
     ELSE fs

\* os.Remove(name): fails for a missing file, and when the call fails
RemoveFails(fs, name, outcome) == name \notin DOMAIN fs \/ outcome # "ok"

Remove(fs, name, outcome) ==
  IF RemoveFails(fs, name, outcome) THEN fs
  ELSE [n \in DOMAIN fs \ {name} |-> fs[n]]

\* the outcomes drawn for the calls one operation makes
OSOutcomes ==
  LET WriteOutcomes == {"ok", "open", "write"}
      CallOutcomes == {"ok", "fail"}
  IN [mkdir : CallOutcomes, w1 : WriteOutcomes, w2 : WriteOutcomes,
      rm1 : CallOutcomes, rm2 : CallOutcomes]

\* the outcomes of the calls NewManager, SaveKeyPair and DeleteKeyPair make,
\* a call that is not made counting as "ok": MkdirAll does nothing for a
\* directory that exists; the second write follows a first that succeeded;
\* the removal follows a second write that failed
ManagerOutcomes(d) ==
  {o \in OSOutcomes :
     /\ d => o.mkdir = "ok"
     /\ o.w1 = "ok" /\ o.w2 = "ok" /\ o.rm1 = "ok" /\ o.rm2 = "ok"}

SaveOutcomes(d) ==
  {o \in OSOutcomes :
     /\ d => o.mkdir = "ok"
     /\ o.mkdir # "ok" => o.w1 = "ok"
     /\ o.w1 # "ok" => o.w2 = "ok"
     /\ o.w2 = "ok" => o.rm1 = "ok"
     /\ o.rm2 = "ok"}

DeleteOutcomes ==
  {o \in OSOutcomes :
     /\ o.mkdir = "ok" /\ o.w1 = "ok" /\ o.w2 = "ok"
     /\ o.rm1 # "ok" => o.rm2 = "ok"}

\* what an operation returns and leaves behind: its error, its result, the
\* directory and the files, the key ID it worked on, and whether a call of
\* the operating system failed on the way
Returned(err, kp, d, fs, keyID, faulted) ==
  [err |-> err, kp |-> kp, dir |-> d, files |-> fs, keyID |-> keyID,
   faulted |-> faulted]

\* NewManager(keysDir)
NewManager(d, fs, keysDir, o) ==
  IF keysDir = <<>>
    THEN Returned(Wrap("ErrInvalidPath", "keys directory cannot be empty"),
                  Nil, d, fs, <<>>, FALSE)
  ELSE IF ~d /\ o.mkdir # "ok"
    THEN Returned(Wrap("ErrKeySave", "failed to create keys directory"),
                  Nil, d, fs, <<>>, TRUE)
  ELSE Returned(NilErr, Nil, TRUE, fs, <<>>, FALSE)

\* SaveKeyPair creating the keys directory before looking at the pair
SaveKeyPair_MkdirFirst(d, fs, kp, o) ==
  IF kp = Nil
    THEN Returned(NewError("key pair is nil"), Nil, TRUE, fs, <<>>, FALSE)
  ELSE IF kp.PrivateKey = Nil \/ kp.PublicKey = Nil
    THEN Returned(NewError("invalid key pair: private or public key is nil"),
                  Nil, TRUE, fs, <<>>, FALSE)
  ELSE IF ~Validate(kp.PrivateKey)
    THEN Returned(Wrap("rsa", "invalid private key"), Nil, TRUE, fs, <<>>, FALSE)
  ELSE
    LET keyID == KeyIDOf(kp.PublicKey.N)
        privateKeyPEM ==
          PemEncodeToMemory("RSA PRIVATE KEY", MarshalPKCS1PrivateKey(kp.PrivateKey))
        publicKeyPEM ==
          PemEncodeToMemory("RSA PUBLIC KEY", MarshalPKCS1PublicKey(kp.PublicKey))
        fs1 == WriteFile(fs, PrivateKeyPath(keyID), privateKeyPEM, "0600", o.w1)
        fs2 == WriteFile(fs1, PublicKeyPath(keyID), publicKeyPEM, "0644", o.w2)
    IN IF o.w1 # "ok"
         THEN Returned(Wrap("os", "failed to save private key"),
                       Nil, TRUE, fs1, keyID, TRUE)
       ELSE IF o.w2 # "ok"
         THEN Returned(Wrap("os", "failed to save public key"),
                       Nil, TRUE, Remove(fs2, PrivateKeyPath(keyID), o.rm1), keyID, TRUE)
       ELSE Returned(NilErr, Nil, TRUE, fs2, keyID, FALSE)

\* SaveKeyPair storing the private key in both files
SaveKeyPair_PrivateTwice(d, fs, kp, o) ==
  IF kp = Nil
    THEN Returned(NewError("key pair is nil"), Nil, d, fs, <<>>, FALSE)
  ELSE IF kp.PrivateKey = Nil \/ kp.PublicKey = Nil
    THEN Returned(NewError("invalid key pair: private or public key is nil"),
                  Nil, d, fs, <<>>, FALSE)
  ELSE IF ~Validate(kp.PrivateKey)
    THEN Returned(Wrap("rsa", "invalid private key"), Nil, d, fs, <<>>, FALSE)
  ELSE
    LET keyID == KeyIDOf(kp.PublicKey.N)
        privateKeyPEM ==
          PemEncodeToMemory("RSA PRIVATE KEY", MarshalPKCS1PrivateKey(kp.PrivateKey))
        fs1 == WriteFile(fs, PrivateKeyPath(keyID), privateKeyPEM, "0600", o.w1)
        fs2 == WriteFile(fs1, PublicKeyPath(keyID), privateKeyPEM, "0644", o.w2)
    IN IF ~d /\ o.mkdir # "ok"
         THEN Returned(Wrap("os", "failed to create keys directory"),
                       Nil, d, fs, keyID, TRUE)
       ELSE IF o.w1 # "ok"
         THEN Returned(Wrap("os", "failed to save private key"),
                       Nil, TRUE, fs1, keyID, TRUE)
       ELSE IF o.w2 # "ok"
         THEN Returned(Wrap("os", "failed to save public key"),
                       Nil, TRUE, Remove(fs2, PrivateKeyPath(keyID), o.rm1), keyID, TRUE)
       ELSE Returned(NilErr, Nil, TRUE, fs2, keyID, FALSE)

\* SaveKeyPair naming the files after the KeyID field of the pair
SaveKeyPair_KeyIDField(d, fs, kp, o) ==
  IF kp = Nil
    THEN Returned(NewError("key pair is nil"), Nil, d, fs, <<>>, FALSE)
  ELSE IF kp.PrivateKey = Nil \/ kp.PublicKey = Nil
    THEN Returned(NewError("invalid key pair: private or public key is nil"),
                  Nil, d, fs, <<>>, FALSE)
  ELSE IF ~Validate(kp.PrivateKey)
    THEN Returned(Wrap("rsa", "invalid private key"), Nil, d, fs, <<>>, FALSE)
  ELSE
    LET keyID == kp.KeyID
        privateKeyPEM ==
          PemEncodeToMemory("RSA PRIVATE KEY", MarshalPKCS1PrivateKey(kp.PrivateKey))
        publicKeyPEM ==
          PemEncodeToMemory("RSA PUBLIC KEY", MarshalPKCS1PublicKey(kp.PublicKey))
        fs1 == WriteFile(fs, PrivateKeyPath(keyID), privateKeyPEM, "0600", o.w1)
        fs2 == WriteFile(fs1, PublicKeyPath(keyID), publicKeyPEM, "0644", o.w2)
    IN IF ~d /\ o.mkdir # "ok"
         THEN Returned(Wrap("os", "failed to create keys directory"),
                       Nil, d, fs, keyID, TRUE)
       ELSE IF o.w1 # "ok"
         THEN Returned(Wrap("os", "failed to save private key"),
                       Nil, TRUE, fs1, keyID, TRUE)
       ELSE IF o.w2 # "ok"
         THEN Returned(Wrap("os", "failed to save public key"),
                       Nil, TRUE, Remove(fs2, PrivateKeyPath(keyID), o.rm1), keyID, TRUE)
       ELSE Returned(NilErr, Nil, TRUE, fs2, keyID, FALSE)

\* SaveKeyPair(kp): the checks, the directory, the private file, the public
\* file; when the public file cannot be written the private file is
\* removed and the error of that removal is dropped
SaveKeyPair(d, fs, kp, o) ==
  IF kp = Nil
    THEN Returned(NewError("key pair is nil"), Nil, d, fs, <<>>, FALSE)
  ELSE IF kp.PrivateKey = Nil \/ kp.PublicKey = Nil
    THEN Returned(NewError("invalid key pair: private or public key is nil"),
                  Nil, d, fs, <<>>, FALSE)
  ELSE IF ~Validate(kp.PrivateKey)
    THEN Returned(Wrap("rsa", "invalid private key"), Nil, d, fs, <<>>, FALSE)
  ELSE
    LET keyID == KeyIDOf(kp.PublicKey.N)
        privateKeyPEM ==
          PemEncodeToMemory("RSA PRIVATE KEY", MarshalPKCS1PrivateKey(kp.PrivateKey))
        publicKeyPEM ==
          PemEncodeToMemory("RSA PUBLIC KEY", MarshalPKCS1PublicKey(kp.PublicKey))
        fs1 == WriteFile(fs, PrivateKeyPath(keyID), privateKeyPEM, "0600", o.w1)
        fs2 == WriteFile(fs1, PublicKeyPath(keyID), publicKeyPEM, "0644", o.w2)
    IN IF ~d /\ o.mkdir # "ok"
         THEN Returned(Wrap("os", "failed to create keys directory"),
                       Nil, d, fs, keyID, TRUE)
       ELSE IF o.w1 # "ok"
         THEN Returned(Wrap("os", "failed to save private key"),
                       Nil, TRUE, fs1, keyID, TRUE)
       ELSE IF o.w2 # "ok"
         THEN Returned(Wrap("os", "failed to save public key"),
                       Nil, TRUE, Remove(fs2, PrivateKeyPath(keyID), o.rm1), keyID, TRUE)
       ELSE Returned(NilErr, Nil, TRUE, fs2, keyID, FALSE)

\* LoadKeyPair reading the private file only and taking the public key
\* from the private key
LoadKeyPair_PrivateOnly(d, fs, keyID) ==
  LET failed == Returned(Wrap("ErrKeyLoad", ""), Nil, d, fs, keyID, FALSE)
  IN IF keyID = <<>>
       THEN Returned(Wrap("ErrKeyLoad", "key ID cannot be empty"),
                     Nil, d, fs, keyID, FALSE)
     ELSE IF PrivateKeyPath(keyID) \notin DOMAIN fs THEN failed
     ELSE IF PemDecode(fs[PrivateKeyPath(keyID)].data) = Nil THEN failed
     ELSE IF ~ParsePKCS1PrivateKey(PemDecode(fs[PrivateKeyPath(keyID)].data).bytes).ok
       THEN failed
     ELSE
       LET privateKey ==
             ParsePKCS1PrivateKey(PemDecode(fs[PrivateKeyPath(keyID)].data).bytes).key
       IN Returned(NilErr,
            [nil |-> FALSE, PrivateKey |-> privateKey,
             PublicKey |-> PublicOf(privateKey), KeyID |-> keyID],
            d, fs, keyID, FALSE)

\* LoadKeyPair(keyID)
LoadKeyPair(d, fs, keyID) ==
  LET failed == Returned(Wrap("ErrKeyLoad", ""), Nil, d, fs, keyID, FALSE)
  IN IF keyID = <<>>
       THEN Returned(Wrap("ErrKeyLoad", "key ID cannot be empty"),
                     Nil, d, fs, keyID, FALSE)
     ELSE IF PrivateKeyPath(keyID) \notin DOMAIN fs THEN failed
     ELSE IF PemDecode(fs[PrivateKeyPath(keyID)].data) = Nil THEN failed
     ELSE IF ~ParsePKCS1PrivateKey(PemDecode(fs[PrivateKeyPath(keyID)].data).bytes).ok
       THEN failed
     ELSE IF PublicKeyPath(keyID) \notin DOMAIN fs THEN failed
     ELSE IF PemDecode(fs[PublicKeyPath(keyID)].data) = Nil THEN failed
     ELSE IF ~ParsePKCS1PublicKey(PemDecode(fs[PublicKeyPath(keyID)].data).bytes).ok
       THEN failed
     ELSE
       Returned(NilErr,
         [nil |-> FALSE,
          PrivateKey |->
            ParsePKCS1PrivateKey(PemDecode(fs[PrivateKeyPath(keyID)].data).bytes).key,
          PublicKey |->
            ParsePKCS1PublicKey(PemDecode(fs[PublicKeyPath(keyID)].data).bytes).key,
          KeyID |-> keyID],
         d, fs, keyID, FALSE)

\* DeleteKeyPair removing the public file before the private file
DeleteKeyPair_PublicFirst(d, fs, keyID, o) ==
  IF keyID = <<>>
    THEN Returned(Wrap("ErrKeyLoad", "key ID cannot be empty"),
                  Nil, d, fs, keyID, FALSE)
  ELSE IF PrivateKeyPath(keyID) \notin DOMAIN fs
    THEN Returned(Wrap("ErrKeyNotFound", "private key not found"),
                  Nil, d, fs, keyID, FALSE)
  ELSE IF PublicKeyPath(keyID) \notin DOMAIN fs
    THEN Returned(Wrap("ErrKeyNotFound", "public key not found"),
                  Nil, d, fs, keyID, FALSE)
  ELSE IF RemoveFails(fs, PublicKeyPath(keyID), o.rm1)
    THEN Returned(Wrap("os", "failed to delete public key"),
                  Nil, d, fs, keyID, TRUE)
  ELSE
    LET fs1 == Remove(fs, PublicKeyPath(keyID), o.rm1)
    IN IF RemoveFails(fs1, PrivateKeyPath(keyID), o.rm2)
         THEN Returned(Wrap("os", "failed to delete private key"),
                       Nil, d, fs1, keyID, TRUE)
       ELSE Returned(NilErr, Nil, d, Remove(fs1, PrivateKeyPath(keyID), o.rm2),
                     keyID, FALSE)

\* DeleteKeyPair(keyID)
DeleteKeyPair(d, fs, keyID, o) ==
  IF keyID = <<>>
    THEN Returned(Wrap("ErrKeyLoad", "key ID cannot be empty"),
                  Nil, d, fs, keyID, FALSE)
  ELSE IF PrivateKeyPath(keyID) \notin DOMAIN fs
    THEN Returned(Wrap("ErrKeyNotFound", "private key not found"),
                  Nil, d, fs, keyID, FALSE)
  ELSE IF PublicKeyPath(keyID) \notin DOMAIN fs
    THEN Returned(Wrap("ErrKeyNotFound", "public key not found"),
                  Nil, d, fs, keyID, FALSE)
  ELSE IF RemoveFails(fs, PrivateKeyPath(keyID), o.rm1)
    THEN Returned(Wrap("os", "failed to delete private key"),
                  Nil, d, fs, keyID, TRUE)
  ELSE
    LET fs1 == Remove(fs, PrivateKeyPath(keyID), o.rm1)
    IN IF RemoveFails(fs1, PublicKeyPath(keyID), o.rm2)
         THEN Returned(Wrap("os", "failed to delete public key"),
                       Nil, d, fs1, keyID, TRUE)
       ELSE Returned(NilErr, Nil, d, Remove(fs1, PublicKeyPath(keyID), o.rm2),
                     keyID, FALSE)

\* ListKeyPairs(): the directory entries in the order os.ReadDir gives
\* them (sorted by file name); of each name ending in ".pem" and made of
\* three parts separated by dots, the first part, once
ListKeyPairs(d, fs) ==
  LET sPem == <<112, 101, 109>>
      Less(a, b) ==
        \E i \in 1..(Len(a) + 1) :
          /\ i <= Len(b)
          /\ SubSeq(a, 1, i - 1) = SubSeq(b, 1, i - 1)
          /\ (i <= Len(a) => a[i] < b[i])
      RECURSIVE ReadDir(_)
      ReadDir(names) ==
        IF names = {} THEN <<>>
        ELSE LET first == CHOOSE n \in names : \A m \in names \ {n} : Less(n, m)
             IN <<first>> \o ReadDir(names \ {first})
      RECURSIVE Collect(_, _)
      Collect(entries, keyIDs) ==
        IF entries = <<>> THEN keyIDs
        ELSE LET parts == Split(Head(entries), sDot)
                 ext == IF Len(parts) >= 2 THEN sDot \o parts[Len(parts)] ELSE <<>>
                 seen == \E i \in 1..Len(keyIDs) : keyIDs[i] = parts[1]
             IN IF ext # sDot \o sPem \/ Len(parts) # 3 \/ seen
                  THEN Collect(Tail(entries), keyIDs)
                  ELSE Collect(Tail(entries), Append(keyIDs, parts[1]))
  IN IF ~d
       THEN [keyIDs |-> <<>>, err |-> Wrap("os", "failed to read keys directory")]
       ELSE [keyIDs |-> Collect(ReadDir(DOMAIN fs), <<>>), err |-> NilErr]

\* handleGenerate(manager, bits) of the key tool: GenerateKeyPair, then
\* SaveKeyPair; the first error is wrapped (%w) and returned
handleGenerate(d, fs, bits, drawn, o) ==
  LET g == GenerateKeyPair(bits, drawn)
      r == SaveKeyPair(d, fs, g.kp, o)
  IN IF g.err # NilErr
       THEN Returned(Wrap(g.err.is, "failed to generate key pair"),
                     Nil, d, fs, <<>>, drawn = Nil)
     ELSE IF r.err # NilErr
       THEN [r EXCEPT !.err = Wrap(r.err.is, "failed to save key pair")]
     ELSE [r EXCEPT !.kp = g.kp]

sKeys == <<107, 101, 121, 115>>

\* the pairs GenerateKeyPair returns for the smallest accepted size
GeneratedPairs ==
  {GenerateKeyPair(MinKeyBits, k).kp : k \in GeneratedKeys(MinKeyBits)}

sTest == <<116, 101, 115, 116>>

\* the pairs handed to SaveKeyPair: generated ones, nil, &KeyPair{KeyID:
\* "test"}, a pair lacking one key, a pair whose private key is invalid
\* (the public part of a generated key, no private exponent or primes),
\* and a generated pair whose KeyID field was set to "test"
SaveInputs ==
  LET InvalidKey(k) == RsaPrivateKey(k.N, k.E, FALSE)
  IN
  GeneratedPairs
    \cup {Nil, [nil |-> FALSE, PrivateKey |-> Nil, PublicKey |-> Nil, KeyID |-> sTest]}
    \cup {[kp EXCEPT !.KeyID = sTest] : kp \in {GenerateKeyPair(MinKeyBits,
             RsaPrivateKey(Modulus(200, MinKeyBits), 65537, TRUE)).kp}}
    \cup {[kp EXCEPT !.PublicKey = Nil] : kp \in GeneratedPairs}
    \cup {[kp EXCEPT !.PrivateKey = InvalidKey(kp.PrivateKey)] : kp \in GeneratedPairs}

\* the key IDs handed to LoadKeyPair and DeleteKeyPair: those of the
\* generated pairs, the empty one, "nonexistent" and "test"
KeyIDInputs ==
  LET sNonexistent == <<110, 111, 110, 101, 120, 105, 115, 116, 101, 110, 116>>
  IN {kp.KeyID : kp \in GeneratedPairs} \cup {<<>>, sNonexistent, sTest}

\* the record of an operation that returned
Completed(name, arg, r) ==
  [name |-> name, arg |-> arg, err |-> r.err, kp |-> r.kp, keyID |-> r.keyID,
   faulted |-> r.faulted]

CallNewManager ==
  /\ \E keysDir \in {<<>>, sKeys}, o \in ManagerOutcomes(dir) :
       LET r == NewManager(dir, files, keysDir, o)
       IN /\ dir' = r.dir
          /\ files' = r.files
          /\ op' = Completed("NewManager", keysDir, r)
  /\ UNCHANGED <<keyPair, userPool, now, slots, last, held, memo, probe, call>>

CallGenerateKeyPair ==
  /\ \E bits \in {MinKeyBits - 1, MinKeyBits, 2 * MinKeyBits} :
       \E drawn \in GeneratedKeys(bits) \cup {Nil} :
         LET g == GenerateKeyPair(bits, drawn)
         IN op' = Completed("GenerateKeyPair", bits,
                    Returned(g.err, g.kp, dir, files, <<>>, drawn = Nil))
  /\ UNCHANGED <<keyPair, userPool, now, slots, last, held, memo, probe, call, dir, files>>

CallSaveKeyPair ==
  /\ \E kp \in SaveInputs, o \in SaveOutcomes(dir) :
       LET r == SaveKeyPair(dir, files, kp, o)
       IN /\ dir' = r.dir
          /\ files' = r.files
          /\ op' = Completed("SaveKeyPair", kp, r)
  /\ UNCHANGED <<keyPair, userPool, now, slots, last, held, memo, probe, call>>

CallLoadKeyPair ==
  /\ \E keyID \in KeyIDInputs :
       op' = Completed("LoadKeyPair", keyID, LoadKeyPair(dir, files, keyID))
  /\ UNCHANGED <<keyPair, userPool, now, slots, last, held, memo, probe, call, dir, files>>

CallDeleteKeyPair ==
  /\ \E keyID \in KeyIDInputs, o \in DeleteOutcomes :
       LET r == DeleteKeyPair(dir, files, keyID, o)
       IN /\ dir' = r.dir
          /\ files' = r.files
          /\ op' = Completed("DeleteKeyPair", keyID, r)
  /\ UNCHANGED <<keyPair, userPool, now, slots, last, held, memo, probe, call>>

\* one run of the key tool with the command generate: main creates the
\* manager for the keys directory and exits when that fails, then calls
\* handleGenerate and exits when that fails
KeytoolGenerate ==
  /\ \E bits \in {MinKeyBits - 1, MinKeyBits}, o1 \in ManagerOutcomes(dir) :
       LET m == NewManager(dir, files, sKeys, o1)
       IN \E drawn \in GeneratedKeys(bits) \cup {Nil}, o \in SaveOutcomes(m.dir) :
            LET r == IF m.err # NilErr THEN m
                     ELSE handleGenerate(m.dir, m.files, bits, drawn, o)
            IN /\ dir' = r.dir
               /\ files' = r.files
               /\ op' = Completed("keytool generate", bits, r)
  /\ UNCHANGED <<keyPair, userPool, now, slots, last, held, memo, probe, call>>

CallListKeyPairs ==
  /\ LET r == ListKeyPairs(dir, files)
     IN op' = [Completed("ListKeyPairs", <<>>,
                 Returned(r.err, Nil, dir, files, <<>>, FALSE))
               EXCEPT !.kp = r.keyIDs]
  /\ UNCHANGED <<keyPair, userPool, now, slots, last, held, memo, probe, call, dir, files>>

\* the keys directory is removed with all it holds (os.RemoveAll)
RemoveKeysDir ==
  /\ dir
  /\ dir' = FALSE
  /\ files' = <<>>
  /\ op' = Completed("RemoveAll", sKeys, Returned(NilErr, Nil, FALSE, <<>>, <<>>, FALSE))
  /\ UNCHANGED <<keyPair, userPool, now, slots, last, held, memo, probe, call>>

NextStore ==
  \/ CallNewManager
  \/ CallGenerateKeyPair
  \/ CallSaveKeyPair
  \/ CallLoadKeyPair
  \/ CallDeleteKeyPair
  \/ CallListKeyPairs
  \/ KeytoolGenerate
  \/ RemoveKeysDir

SpecStore == Init /\ [][NextStore]_vars

\* the store holds the private file of the key ID without its public file
HalfSaved(keyID) ==
  /\ PrivateKeyPath(keyID) \in DOMAIN files
  /\ PublicKeyPath(keyID) \notin DOMAIN files

\* SaveKeyPair returned after it had computed the key ID of the pair
SaveReturned == op.name = "SaveKeyPair" /\ op.keyID # <<>>

\* C17: SaveKeyPair writes the private file first and the public file
\* second and removes the private file when the second write fails: once a
\* SaveKeyPair call has returned, with or without an error, the store does
\* not hold the private file of that key without its public file.
C17_NeverPrivateWithoutPublic == SaveReturned => ~HalfSaved(op.keyID)

\* the pair is nil, lacks a key, or has a private key that does not validate
Unusable(kp) ==
  \/ kp = Nil
  \/ kp.PrivateKey = Nil
  \/ kp.PublicKey = Nil
  \/ ~kp.PrivateKey.ok

\* C18: SaveKeyPair fails for a nil pair, a pair lacking its private or
\* public key, and a pair whose private key fails validation, and then
\* writes nothing: directory and files are as before the call.
C18_RejectedPairWritesNothing ==
  [][(op'.name = "SaveKeyPair" /\ Unusable(op'.arg)) =>
       /\ op'.err # NilErr
       /\ dir' = dir
       /\ files' = files]_vars

C18_Witness ==
  /\ op.name = "SaveKeyPair"
  /\ op.arg # Nil
  /\ op.arg.PrivateKey # Nil
  /\ op.arg.PublicKey # Nil
  /\ ~op.arg.PrivateKey.ok
  /\ op.err = Wrap("rsa", "invalid private key")
  /\ ~dir

\* SaveKeyPair returned for a pair GenerateKeyPair made
SavedGenerated == op.name = "SaveKeyPair" /\ op.arg \in GeneratedPairs

\* C19: for every pair GenerateKeyPair returns, SaveKeyPair succeeds (its
\* writes succeeding) and LoadKeyPair of the pair's KeyID, called next,
\* succeeds and returns a pair with the same private and public modulus and
\* exponent and the same KeyID.
C19_SaveThenLoad ==
  /\ []((SavedGenerated /\ ~op.faulted) => op.err = NilErr)
  /\ [][(/\ SavedGenerated
          /\ op.err = NilErr
          /\ op'.name = "LoadKeyPair"
          /\ op'.arg = op.arg.KeyID) =>
           /\ op'.err = NilErr
           /\ op'.kp.PrivateKey.N = op.arg.PrivateKey.N
           /\ op'.kp.PrivateKey.E = op.arg.PrivateKey.E
           /\ op'.kp.PublicKey.N = op.arg.PublicKey.N
           /\ op'.kp.PublicKey.E = op.arg.PublicKey.E
           /\ op'.kp.KeyID = op.arg.KeyID]_vars

C19_Witness ==
  /\ op.name = "LoadKeyPair"
  /\ op.err = NilErr
  /\ op.kp \in GeneratedPairs
  /\ op.kp.PublicKey.N = Modulus(200, MinKeyBits)

\* both files of the key ID are in the store
Stored(fs, keyID) ==
  PrivateKeyPath(keyID) \in DOMAIN fs /\ PublicKeyPath(keyID) \in DOMAIN fs

\* C20: DeleteKeyPair of an existing key ID removes both files (the
\* removals succeeding) and leaves neither in the store; DeleteKeyPair of an
\* ID with a file missing fails with KeyNotFound, DeleteKeyPair of the empty
\* ID fails with InvalidPath, and both failures leave the store unchanged.
C20_DeleteContract ==
  [][op'.name = "DeleteKeyPair" =>
       /\ (op'.arg # <<>> /\ Stored(files, op'.arg) /\ ~op'.faulted) =>
             /\ op'.err = NilErr
             /\ PrivateKeyPath(op'.arg) \notin DOMAIN files'
             /\ PublicKeyPath(op'.arg) \notin DOMAIN files'
       /\ (op'.arg # <<>> /\ ~Stored(files, op'.arg)) =>
             /\ op'.err.is = "ErrKeyNotFound"
             /\ files' = files
             /\ dir' = dir
       /\ op'.arg = <<>> =>
             /\ op'.err.is = "ErrInvalidPath"
             /\ files' = files
             /\ dir' = dir]_vars

\* C23: GenerateKeyPair(bits) fails with ErrInvalidKeySize and returns no
\* pair for every bits below 2048; for 2048 and 4096 bits (rsa.GenerateKey
\* delivering a key) it returns a pair with a private and a public key, a
\* KeyID that is not empty, a private key that validates and a modulus of
\* exactly the requested number of bits.
C23_GenerateKeyPairBySize ==
  LET BitLen(N) ==
        8 * (Len(N) - 1) + CHOOSE n \in 1..8 : 2^(n - 1) <= N[1] /\ N[1] < 2^n
  IN op.name = "GenerateKeyPair" =>
       /\ op.arg < 2048 => (op.err.is = "ErrInvalidKeySize" /\ op.kp = Nil)
       /\ (op.arg >= 2048 /\ ~op.faulted) =>
             /\ op.err = NilErr
             /\ op.kp # Nil
             /\ op.kp.PrivateKey # Nil
             /\ op.kp.PublicKey # Nil
             /\ op.kp.KeyID # <<>>
             /\ Validate(op.kp.PrivateKey)
             /\ BitLen(op.kp.PrivateKey.N) = op.arg
             /\ BitLen(op.kp.PublicKey.N) = op.arg

C23_Witness ==
  /\ op.name = "GenerateKeyPair"
  /\ op.arg = 2 * MinKeyBits
  /\ op.err = NilErr
  /\ Len(op.kp.PublicKey.N) = 512
  /\ Len(op.kp.KeyID) = 16

\* C24: every error a key-management operation returns is one of
\* ErrInvalidKeySize, ErrKeyGeneration, ErrKeySave, ErrKeyLoad,
\* ErrKeyNotFound and ErrInvalidPath, and the key tool stops at the first
\* error: when generating fails nothing is saved.
C24_ClosedErrorSet ==
  /\ []((op.name # "none" /\ op.err # NilErr) =>
          op.err.is \in {"ErrInvalidKeySize", "ErrKeyGeneration", "ErrKeySave",
                         "ErrKeyLoad", "ErrKeyNotFound", "ErrInvalidPath"})
  /\ [][(/\ op'.name = "keytool generate"
          /\ op'.err.is \in {"ErrInvalidKeySize", "ErrKeyGeneration"}) =>
            files' = files]_vars

SaveSucceeded == op.name = "SaveKeyPair" /\ op.err = NilErr

\* C30 as stated: SaveKeyPair stores the pair under the key ID recomputed
\* from the first 8 bytes of the public modulus, and for every pair kp for
\* which it succeeds the files <kp.KeyID>.private.pem and
\* <kp.KeyID>.public.pem exist afterwards and LoadKeyPair(kp.KeyID) and
\* DeleteKeyPair(kp.KeyID) (its removals succeeding) succeed.
C30_StoredUnderKeyIDField ==
  /\ [](SaveSucceeded =>
          /\ Stored(files, KeyIDOf(op.arg.PublicKey.N))
          /\ Stored(files, op.arg.KeyID))
  /\ [][(/\ SaveSucceeded
          /\ op'.name \in {"LoadKeyPair", "DeleteKeyPair"}
          /\ op'.arg = op.arg.KeyID
          /\ ~op'.faulted) => op'.err = NilErr]_vars

\* C30, amended: SaveKeyPair stores the pair under the key ID recomputed
\* from the first 8 bytes of the public modulus and writes no other file,
\* whatever the KeyID field of the pair; for every pair for which it
\* succeeds the two files of the recomputed ID exist afterwards and
\* LoadKeyPair and DeleteKeyPair (its removals succeeding) of the
\* recomputed ID succeed.  The recomputed ID is kp.KeyID for every pair
\* GenerateKeyPair returns.
C30_StoredUnderRecomputedID ==
  /\ [](SaveSucceeded => Stored(files, KeyIDOf(op.arg.PublicKey.N)))
  /\ [](\A kp \in GeneratedPairs : kp.KeyID = KeyIDOf(kp.PublicKey.N))
  /\ [][(op'.name = "SaveKeyPair" /\ op'.err = NilErr) =>
          DOMAIN files' =
            DOMAIN files \cup {PrivateKeyPath(KeyIDOf(op'.arg.PublicKey.N)),
                               PublicKeyPath(KeyIDOf(op'.arg.PublicKey.N))}]_vars
  /\ [][(/\ SaveSucceeded
          /\ op'.name \in {"LoadKeyPair", "DeleteKeyPair"}
          /\ op'.arg = KeyIDOf(op.arg.PublicKey.N)
          /\ ~op'.faulted) => op'.err = NilErr]_vars

C30_Witness ==
  /\ SaveSucceeded
  /\ op.arg.KeyID = sTest
  /\ Stored(files, KeyIDOf(op.arg.PublicKey.N))
  /\ ~Stored(files, sTest)

\* C22: after any sequence of save and delete operations ListKeyPairs
\* returns no error and, without duplicates, exactly the key IDs of which
\* both the private and the public file are stored; for an empty store it
\* returns an empty result and no error.
C22_ListsStoredPairs ==
  (op.name = "ListKeyPairs" /\ dir) =>
    /\ op.err = NilErr
    /\ \A i, j \in 1..Len(op.kp) : op.kp[i] = op.kp[j] => i = j
    /\ \A keyID \in KeyIDInputs \ {<<>>} :
         (\E i \in 1..Len(op.kp) : op.kp[i] = keyID) <=> Stored(files, keyID)
    /\ \A i \in 1..Len(op.kp) : op.kp[i] \in KeyIDInputs

(***************************************************************************)
(* LoadKeyPair applied to keys directories holding files of every kind.    *)
(***************************************************************************)
\* LoadKeyPair(keyID) on a keys directory the operator manages: each of the
\* two files of the key ID is absent, or holds what SaveKeyPair writes, or
\* holds no PEM block, or a PEM block that is no key, or the PEM block of
\* the other file, or (the private file) a key whose numbers do not fit
CallLoadStored ==
  /\ \E kp \in GeneratedPairs, keyID \in KeyIDInputs :
       LET privateDER == MarshalPKCS1PrivateKey(kp.PrivateKey)
           publicDER == MarshalPKCS1PublicKey(kp.PublicKey)
           noKey == [asn1 |-> "none"]
           privateFiles ==
             {Truncated} \cup
               {PemEncodeToMemory("RSA PRIVATE KEY", der) :
                  der \in {privateDER, publicDER, noKey,
                           [privateDER EXCEPT !.ok = FALSE]}}
           publicFiles ==
             {Truncated} \cup
               {PemEncodeToMemory("RSA PUBLIC KEY", der) :
                  der \in {publicDER, privateDER, noKey}}
           withPrivate ==
             {<<>>} \cup {WriteFile(<<>>, PrivateKeyPath(kp.KeyID), data, "0600", "ok") :
                            data \in privateFiles}
           stores ==
             withPrivate \cup
               {WriteFile(fs, PublicKeyPath(kp.KeyID), data, "0644", "ok") :
                  fs \in withPrivate, data \in publicFiles}
       IN \E fs \in stores :
            call' = [fn |-> "LoadKeyPair", fs |-> fs, keyID |-> keyID,
                     out |-> LoadKeyPair(TRUE, fs, keyID)]
  /\ UNCHANGED <<keyPair, userPool, now, slots, last, held, memo, probe, dir, files, op>>

NextCalls ==
  \/ CallGenerateToken
  \/ CallExtract
  \/ CallIntrospect
  \/ CallLoadStored

SpecCalls == Init /\ [][NextCalls]_vars

\* the file is in the store and holds a PEM block
HoldsPem(fs, name) == name \in DOMAIN fs /\ fs[name].data.pem

\* both files of the key ID hold a PEM block with a key of their kind, the
\* private key's numbers fitting
BothFilesValid(fs, keyID) ==
  /\ HoldsPem(fs, PrivateKeyPath(keyID))
  /\ fs[PrivateKeyPath(keyID)].data.bytes.asn1 = "RSAPrivateKey"
  /\ fs[PrivateKeyPath(keyID)].data.bytes.ok
  /\ HoldsPem(fs, PublicKeyPath(keyID))
  /\ fs[PublicKeyPath(keyID)].data.bytes.asn1 = "RSAPublicKey"

\* C21: LoadKeyPair fails with ErrKeyLoad and returns no pair whenever the
\* private or the public file of the key ID is missing, holds no decodable
\* PEM block or holds no structurally valid key; it succeeds, returning a
\* pair, only when both files are present and valid.
C21_LoadFailsWithKeyLoad ==
  call.fn = "LoadKeyPair" =>
    IF call.keyID # <<>> /\ BothFilesValid(call.fs, call.keyID)
      THEN call.out.err = NilErr /\ call.out.kp # Nil
      ELSE call.out.err.is = "ErrKeyLoad" /\ call.out.kp = Nil

C21_Witness ==
  /\ call.fn = "LoadKeyPair"
  /\ HoldsPem(call.fs, PrivateKeyPath(call.keyID))
  /\ call.fs[PrivateKeyPath(call.keyID)].data.bytes.asn1 = "RSAPrivateKey"
  /\ call.fs[PrivateKeyPath(call.keyID)].data.bytes.ok
  /\ HoldsPem(call.fs, PublicKeyPath(call.keyID))
  /\ call.fs[PublicKeyPath(call.keyID)].data.bytes.asn1 = "RSAPrivateKey"
  /\ call.out.err.is = "ErrKeyLoad"

====
